---- MODULE Spec2Model ----
(***************************************************************************)
(* A model of sapling: the streaming Newick parser (newick_parser), the    *)
(* node graph it builds (phylo_node) and the indexed tree (tree).          *)
(*                                                                         *)
(* Characters are one-character strings, texts are sequences of            *)
(* characters.  Node pointers are indices into a heap of node records;     *)
(* NULL is the null pointer.                                               *)
(***************************************************************************)
EXTENDS Integers, Sequences, FiniteSets, TLC

\* ------------------------------------------------------------------------
\* Bounds of the model
\* ------------------------------------------------------------------------

\* number of characters handed to _parse_character in one run of the parser
MaxLen == 5

\* ------------------------------------------------------------------------
\* Characters
\* ------------------------------------------------------------------------

\* the characters _parse_character distinguishes, one letter and one digit
Alphabet == {"(", ")", ",", ";", "'", ":", "A", "1"}

Structural == {"(", ")", ",", ";"}

Digits == {"0", "1"}

\* the null pointer
NULL == 0

\* a pointer read from an empty std::stack: it points to no node
WILD == -1

\* std::string::npos, with positions counted from 1
npos == 0

\* ------------------------------------------------------------------------
\* phylo_node
\* ------------------------------------------------------------------------

\* an id that no indexing pass has assigned yet
INVALID == -1

\* phylo_node::phylo_node(): empty label, zero length, no children, no
\* parent, ids not yet assigned, aggregates zero
phylo_node ==
    [_preorder_id |-> INVALID, _postorder_id |-> INVALID,
     _label |-> <<>>, _branch_length |-> 0, _subtree_branch_length |-> 0,
     _num_nodes |-> 0, _num_leaves |-> 0, _depth |-> 0,
     _children |-> <<>>, _parent |-> NULL]

\* phylo_node::add_child on the heap: child is appended to the parent's list
\* and its parent reference is set
add_child(nodes, parent, child) ==
    [nodes EXCEPT ![parent]._children = Append(@, child),
                  ![child]._parent = parent]

\* ------------------------------------------------------------------------
\* std::string helpers used by _parse_node_text
\* ------------------------------------------------------------------------

\* find_last_of mistaken for find_first_of
find_first_of(s, ch) ==
    LET hits == {i \in 1..Len(s) : s[i] = ch}
    IN  IF hits = {} THEN npos ELSE CHOOSE i \in hits : \A j \in hits : i <= j

\* std::string::find_last_of(ch): the last position of ch, or npos
find_last_of(s, ch) ==
    LET hits == {i \in 1..Len(s) : s[i] = ch}
    IN  IF hits = {} THEN npos ELSE CHOOSE i \in hits : \A j \in hits : j <= i

\* boost::starts_with(s, ch)
starts_with(s, ch) == Len(s) > 0 /\ s[1] = ch

\* std::string::substr(0, found): everything when found is npos
substr_to(s, found) ==
    IF found = npos THEN s ELSE SubSeq(s, 1, found - 1)

\* std::string::substr(found + 1)
substr_from(s, found) == SubSeq(s, found + 1, Len(s))

\* the length of the longest prefix of s made of digits: what std::stof reads
RECURSIVE NumPrefixLen(_)
NumPrefixLen(s) ==
    IF s = <<>> \/ s[1] \notin Digits THEN 0 ELSE 1 + NumPrefixLen(Tail(s))

\* the value of a digit
DigitValue(d) == IF d = "1" THEN 1 ELSE 0

\* the value of a string of digits in base ten
RECURSIVE DecimalValue(_)
DecimalValue(s) ==
    IF s = <<>> THEN 0
    ELSE 10 * DecimalValue(SubSeq(s, 1, Len(s) - 1)) + DigitValue(s[Len(s)])

\* std::stof throws std::invalid_argument when no conversion can be done
stof_throws(s) == NumPrefixLen(s) = 0

\* std::stof converts the longest numeric prefix and ignores what follows
stof(s) == DecimalValue(SubSeq(s, 1, NumPrefixLen(s)))

\* ------------------------------------------------------------------------
\* newick_parser
\* ------------------------------------------------------------------------

\* newick_parser::newick_parser(): the state of a fresh parser.
\* nodes is the heap of the nodes created with new; status is "ok" while
\* the parser runs, "error" once std::stof has thrown out of parse(),
\* "crashed" when the process died; ub records that top()/pop() were called
\* on an empty stack.
newick_parser ==
    [_node_stack |-> <<>>, _root |-> NULL, _node_text |-> <<>>,
     _parsing_node |-> FALSE, _end_of_file |-> FALSE, _parsing_text |-> FALSE,
     nodes |-> <<>>, status |-> "ok", ub |-> FALSE]

\* newick_parser::get_root
get_root(p) == p._root

\* std::stack::top(); on an empty stack the read is undefined: the pointer
\* may point to no node at all or happen to alias a node of the heap
top(p) ==
    IF p._node_stack # <<>> THEN {p._node_stack[Len(p._node_stack)]}
    ELSE {WILD} \cup (1..Len(p.nodes))

\* std::stack::pop()
pop(stack) == IF stack = <<>> THEN stack ELSE SubSeq(stack, 1, Len(stack) - 1)

\* _start_node giving the new node no parent
_start_node_orphan(p) ==
    [p EXCEPT !.nodes = Append(@, phylo_node),
              !._node_stack = Append(@, Len(p.nodes) + 1)]

\* newick_parser::_start_node
_start_node(p) ==
    LET parent == IF p._node_stack = <<>> THEN NULL
                  ELSE p._node_stack[Len(p._node_stack)]
        id     == Len(p.nodes) + 1
    IN  [p EXCEPT !.nodes = Append(@, [phylo_node EXCEPT !._parent = parent]),
                  !._node_stack = Append(@, id)]

\* newick_parser::_parse_node_text, current_node being what top() returned
_parse_node_text(p, current_node) ==
    IF p._node_text = <<>> THEN p
    ELSE
      LET found == find_last_of(p._node_text, ":")
          p1 == IF ~starts_with(p._node_text, ":") /\ current_node # WILD
                THEN [p EXCEPT !.nodes[current_node]._label =
                                   substr_to(p._node_text, found)]
                ELSE p
      IN  IF found # npos
          THEN LET len_str == substr_from(p._node_text, found)
               IN  IF stof_throws(len_str)
                   THEN [p1 EXCEPT !.status = "error"]
                   ELSE IF current_node # WILD
                   THEN [p1 EXCEPT !.nodes[current_node]._branch_length =
                                       stof(len_str),
                                   !._node_text = <<>>]
                   ELSE [p1 EXCEPT !._node_text = <<>>]
          ELSE [p1 EXCEPT !._node_text = <<>>]

\* newick_parser::_finish_node for one value of top(): the parser after the
\* call and the node returned
FinishWith(p, current_node) ==
    LET p1 == _parse_node_text(p, current_node)
    IN  IF p1.status = "error" THEN [p |-> p1, ret |-> NULL]
        ELSE
          LET parent == IF current_node = WILD THEN NULL
                        ELSE p1.nodes[current_node]._parent
              p2 == [p1 EXCEPT !._node_stack = pop(@),
                               !._parsing_node = FALSE]
          IN  [p |-> IF parent # NULL
                     THEN [p2 EXCEPT !.nodes =
                                        add_child(@, parent, current_node)]
                     ELSE p2,
               ret |-> current_node]

\* newick_parser::_finish_node: every outcome of the call.  With an empty
\* stack top() and pop() are undefined: the process may die, or go on with
\* whatever pointer top() produced.
_finish_node(p) ==
    IF p._node_stack # <<>>
    THEN {FinishWith(p, n) : n \in top(p)}
    ELSE {[p |-> [p EXCEPT !.status = "crashed", !.ub = TRUE], ret |-> NULL]}
         \cup {LET f == FinishWith(p, n)
               IN  [p |-> [f.p EXCEPT !.ub = TRUE], ret |-> f.ret]
               : n \in top(p)}

\* the outcomes of _finish_node that returned normally
Returned(fs) == {f \in fs : f.p.status = "ok"}

\* the outcomes of _finish_node that left by an exception or a crash
Aborted(fs) == {f.p : f \in {g \in fs : g.p.status # "ok"}}

\* newick_parser::_handle_quote
_handle_quote(p) == {[p EXCEPT !._parsing_text = ~p._parsing_text]}

\* newick_parser::_handle_left_parenthesis
_handle_left_parenthesis(p) ==
    {[_start_node(p) EXCEPT !._parsing_node = FALSE]}

\* _handle_right_parenthesis leaving _parsing_node cleared
_handle_right_parenthesis_closed(p) ==
    LET fs == _finish_node(p)
    IN  {f.p : f \in Returned(fs)} \cup Aborted(fs)

\* newick_parser::_handle_right_parenthesis
_handle_right_parenthesis(p) ==
    LET fs == _finish_node(p)
    IN  {[f.p EXCEPT !._parsing_node = TRUE] : f \in Returned(fs)}
        \cup Aborted(fs)

\* _handle_comma keeping the node it finished as the root
_handle_comma_roots(p) ==
    LET fs == _finish_node(p)
    IN  {[f.p EXCEPT !._root = f.ret] : f \in Returned(fs)} \cup Aborted(fs)

\* newick_parser::_handle_comma
_handle_comma(p) ==
    LET fs == _finish_node(p)
    IN  {f.p : f \in Returned(fs)} \cup Aborted(fs)

\* newick_parser::_handle_semicolon
_handle_semicolon(p) ==
    LET fs == _finish_node(p)
    IN  {[f.p EXCEPT !._root = f.ret, !._end_of_file = TRUE]
            : f \in Returned(fs)}
        \cup Aborted(fs)

\* newick_parser::_handle_text
_handle_text(p, ch) ==
    LET p1 == IF ~p._parsing_node
              THEN [_start_node(p) EXCEPT !._parsing_node = TRUE]
              ELSE p
    IN  {[p1 EXCEPT !._node_text = Append(@, ch)]}

\* _parse_character without the test of _parsing_text
_parse_character_unquoted(p, ch) ==
    CASE ch = "'" -> _handle_quote(p)
      [] ch = "(" -> _handle_left_parenthesis(p)
      [] ch = ")" -> _handle_right_parenthesis(p)
      [] ch = "," -> _handle_comma(p)
      [] ch = ";" -> _handle_semicolon(p)
      [] OTHER    -> _handle_text(p, ch)

\* newick_parser::_parse_character: the set of states the call can leave
_parse_character(p, ch) ==
    IF p._parsing_text /\ ch # "'"
    THEN _handle_text(p, ch)
    ELSE CASE ch = "'" -> _handle_quote(p)
           [] ch = "(" -> _handle_left_parenthesis(p)
           [] ch = ")" -> _handle_right_parenthesis(p)
           [] ch = "," -> _handle_comma(p)
           [] ch = ";" -> _handle_semicolon(p)
           [] OTHER    -> _handle_text(p, ch)

\* ------------------------------------------------------------------------
\* The tree a node pointer denotes
\* ------------------------------------------------------------------------

RECURSIVE Shape(_, _, _)
\* the subtree of n as a value: label, branch length and the subtrees of the
\* children in order; fuel bounds the unfolding
Shape(nodes, n, fuel) ==
    IF n = NULL THEN <<"null">>
    ELSE IF n = WILD THEN <<"wild">>
    ELSE IF fuel = 0 THEN <<"deep">>
    ELSE <<nodes[n]._label, nodes[n]._branch_length,
           [i \in 1..Len(nodes[n]._children) |->
               Shape(nodes, nodes[n]._children[i], fuel - 1)]>>

\* what a caller sees through get_root(): the structure below the root
RootShape(p) == Shape(p.nodes, get_root(p), Len(p.nodes) + 1)

\* ------------------------------------------------------------------------
\* Traversals (visit_subtree with the post-order and pre-order iterators)
\* ------------------------------------------------------------------------

RECURSIVE PostOrder(_, _), PostOrderList(_, _)
\* visit_subtree<postorder_tree_iterator>(n): the children's subtrees left
\* to right, then n
PostOrder(h, n) == PostOrderList(h, h[n]._children) \o <<n>>

\* the post-order traversals of a list of nodes, one after the other
PostOrderList(h, ns) ==
    IF ns = <<>> THEN <<>>
    ELSE PostOrder(h, ns[1]) \o PostOrderList(h, Tail(ns))

RECURSIVE PreOrder(_, _), PreOrderList(_, _)
\* visit_subtree<preorder_tree_iterator>(n): n, then the children's
\* subtrees left to right
PreOrder(h, n) == <<n>> \o PreOrderList(h, h[n]._children)

\* the pre-order traversals of a list of nodes, one after the other
PreOrderList(h, ns) ==
    IF ns = <<>> THEN <<>>
    ELSE PreOrder(h, ns[1]) \o PreOrderList(h, Tail(ns))

\* a traversal that goes on with the parent of n once the subtree of n is
\* done
visit_subtree_climbing(h, n) ==
    IF h[n]._parent = NULL THEN PostOrder(h, n)
    ELSE PostOrder(h, n) \o <<h[n]._parent>>

\* visit_subtree(n) with its default iterator, the post-order one
visit_subtree(h, n) == PostOrder(h, n)

\* ------------------------------------------------------------------------
\* tree
\* ------------------------------------------------------------------------

\* a map with no entry (std::unordered_map after clear())
EmptyMap == [k \in {} |-> NULL]

\* map.insert({key, value}): an entry that exists is kept
Put_insert(map, key, value) ==
    [k \in DOMAIN map \cup {key} |->
        IF k \in DOMAIN map THEN map[k] ELSE value]

\* map[key] = value
Put(map, key, value) ==
    [k \in DOMAIN map \cup {key} |-> IF k = key THEN value ELSE map[k]]

\* the tree object before its constructor has run
NoTree ==
    [constructed |-> FALSE, _root |-> NULL, _node_count |-> 0,
     _preorder_id_to_node |-> EmptyMap,
     _postorder_id_node_mapping |-> EmptyMap,
     _label_to_node |-> EmptyMap]

\* a tree and the heap of its nodes, as the indexing phases pass them on
State(t, h) == [tree |-> t, heap |-> h]

RECURSIVE PreorderLoop(_, _, _)
\* the loop of _index_preorder_id over the nodes still to visit
PreorderLoop(st, order, preorder_id) ==
    IF order = <<>> THEN st
    ELSE LET node == order[1]
         IN  PreorderLoop(
                 State([st.tree EXCEPT !._preorder_id_to_node =
                                           Put(@, preorder_id, node)],
                       [st.heap EXCEPT ![node]._preorder_id = preorder_id]),
                 Tail(order), preorder_id + 1)

\* _index_preorder_id handing out its ids along the post-order traversal
_index_preorder_id_postorder(st) ==
    PreorderLoop(State([st.tree EXCEPT !._preorder_id_to_node = EmptyMap],
                       st.heap),
                 PostOrder(st.heap, st.tree._root), 0)

\* tree::_index_preorder_id
_index_preorder_id(st) ==
    PreorderLoop(State([st.tree EXCEPT !._preorder_id_to_node = EmptyMap],
                       st.heap),
                 PreOrder(st.heap, st.tree._root), 0)

RECURSIVE PostorderLoop(_, _, _)
\* the loop of _index_postorder_id over the nodes still to visit
PostorderLoop(st, order, postorder_id) ==
    IF order = <<>> THEN st
    ELSE LET node == order[1]
         IN  PostorderLoop(
                 State([st.tree EXCEPT !._postorder_id_node_mapping =
                                           Put(@, postorder_id, node)],
                       [st.heap EXCEPT ![node]._postorder_id = postorder_id]),
                 Tail(order), postorder_id + 1)

\* _index_postorder_id counting from 1
_index_postorder_id_from_one(st) ==
    PostorderLoop(State([st.tree EXCEPT !._postorder_id_node_mapping = EmptyMap],
                        st.heap),
                  PostOrder(st.heap, st.tree._root), 1)

\* tree::_index_postorder_id
_index_postorder_id(st) ==
    PostorderLoop(State([st.tree EXCEPT !._postorder_id_node_mapping = EmptyMap],
                        st.heap),
                  PostOrder(st.heap, st.tree._root), 0)

RECURSIVE LabelsLoop(_, _)
\* the loop of _index_labels over the nodes still to visit
LabelsLoop(st, order) ==
    IF order = <<>> THEN st
    ELSE LET node == order[1]
         IN  LabelsLoop(
                 State([st.tree EXCEPT !._label_to_node =
                                           Put(@, st.heap[node]._label, node)],
                       st.heap),
                 Tail(order))

\* _index_labels without the clear() of the table
_index_labels_without_clear(st) ==
    LabelsLoop(st, PostOrder(st.heap, st.tree._root))

\* _index_labels visiting the nodes in pre-order
_index_labels_preorder(st) ==
    LabelsLoop(State([st.tree EXCEPT !._label_to_node = EmptyMap], st.heap),
               PreOrder(st.heap, st.tree._root))

\* tree::_index_labels
_index_labels(st) ==
    LabelsLoop(State([st.tree EXCEPT !._label_to_node = EmptyMap], st.heap),
               PostOrder(st.heap, st.tree._root))

RECURSIVE _index_depth_recursive(_, _, _), DepthOfChildren(_, _, _)
\* tree::_index_depth_recursive: the heap after the call
_index_depth_recursive(h, node, depth) ==
    IF node = NULL THEN h
    ELSE DepthOfChildren([h EXCEPT ![node]._depth = depth],
                         h[node]._children, depth + 1)

\* the loop of _index_depth_recursive over the children
DepthOfChildren(h, children, depth) ==
    IF children = <<>> THEN h
    ELSE DepthOfChildren(_index_depth_recursive(h, children[1], depth),
                         Tail(children), depth)

\* _index_depth that gives the root the depth 1
_index_depth_from_one(st) ==
    State(st.tree, _index_depth_recursive(st.heap, st.tree._root, 1))

\* tree::_index_depth
_index_depth(st) ==
    State(st.tree, _index_depth_recursive(st.heap, st.tree._root, 0))

\* phylo_node::is_leaf
is_leaf(node) == node._children = <<>>

RECURSIVE ChildrenLoop(_, _, _)
\* the loop of _index_nodes over the children of a node: the three totals
ChildrenLoop(h, children, acc) ==
    IF children = <<>> THEN acc
    ELSE LET child == h[children[1]]
         IN  ChildrenLoop(h, Tail(children),
                 [total_num_nodes |->
                      acc.total_num_nodes + child._num_nodes,
                  total_num_leaves |->
                      acc.total_num_leaves + child._num_leaves,
                  subtree_branch_length |->
                      acc.subtree_branch_length
                      + child._subtree_branch_length + child._branch_length])

RECURSIVE NodesLoop(_, _)
\* the loop of _index_nodes over the nodes still to visit
NodesLoop(st, order) ==
    IF order = <<>> THEN st
    ELSE
      LET node == order[1]
          h    == st.heap
          t    == [st.tree EXCEPT !._node_count = @ + 1]
          children == h[node]._children
          totals == ChildrenLoop(h, children,
                       [total_num_nodes |-> Len(children),
                        total_num_leaves |-> 0,
                        subtree_branch_length |-> 0])
      IN  NodesLoop(
            State(t,
              IF is_leaf(h[node])
              THEN [h EXCEPT ![node]._num_nodes = 0,
                             ![node]._num_leaves = 1,
                             ![node]._subtree_branch_length = 0]
              ELSE [h EXCEPT ![node]._num_nodes = totals.total_num_nodes,
                             ![node]._num_leaves = totals.total_num_leaves,
                             ![node]._subtree_branch_length =
                                 totals.subtree_branch_length]),
            Tail(order))

\* _index_nodes visiting each node before its children
_index_nodes_preorder(st) ==
    NodesLoop(State([st.tree EXCEPT !._node_count = 0], st.heap),
              PreOrder(st.heap, st.tree._root))

\* tree::_index_nodes
_index_nodes(st) ==
    NodesLoop(State([st.tree EXCEPT !._node_count = 0], st.heap),
              PostOrder(st.heap, st.tree._root))

\* the phases of index() without the last one, _index_nodes
IndexPhases_without_nodes(st) ==
    _index_depth(_index_labels(_index_postorder_id(_index_preorder_id(st))))

\* the five phases of tree::index in their order
IndexPhases(st) ==
    _index_nodes(_index_depth(_index_labels(_index_postorder_id(
        _index_preorder_id(st)))))

\* index() testing the parent of the root after the phases have run
index_late_check(st) ==
    IF st.tree._root = NULL
    THEN [tree |-> st.tree, heap |-> st.heap, thrown |-> "crash"]
    ELSE LET done == IndexPhases(st)
         IN  [tree |-> done.tree, heap |-> done.heap,
              thrown |-> IF st.heap[st.tree._root]._parent # NULL
                         THEN "invalid_argument" ELSE "none"]

\* tree::index: the tree, the heap and what the call threw.  With a null
\* _root the first line dereferences a null pointer and the process dies.
index(st) ==
    IF st.tree._root = NULL
    THEN [tree |-> st.tree, heap |-> st.heap, thrown |-> "crash"]
    ELSE IF st.heap[st.tree._root]._parent # NULL
    THEN [tree |-> st.tree, heap |-> st.heap, thrown |-> "invalid_argument"]
    ELSE LET done == IndexPhases(st)
         IN  [tree |-> done.tree, heap |-> done.heap, thrown |-> "none"]

\* tree::tree(root): the object exists only when index() did not throw
tree_tree(h, root) ==
    LET r == index(State([NoTree EXCEPT !._root = root, !._node_count = 0], h))
    IN  IF r.thrown = "none"
        THEN [r EXCEPT !.tree.constructed = TRUE]
        ELSE [tree |-> NoTree, heap |-> r.heap, thrown |-> r.thrown]

\* tree::set_root
set_root(t, root) == [t EXCEPT !._root = root]

\* tree::begin() const and tree::end() const: the nodes yielded from the
\* one to the other
tree_begin_const(t, h) == visit_subtree(h, t._root)

\* begin() and end() made with the pre-order iterator
tree_begin_preorder(t, h) == PreOrder(h, t._root)

\* tree::begin() and tree::end(): the nodes yielded from the one to the
\* other
tree_begin(t, h) == PostOrder(h, t._root)

\* tree::get_node_count
get_node_count(t) == t._node_count

\* get_by_postorder_id searching the pre-order table
get_by_postorder_id_wrong_map(t, postorder_id) ==
    IF postorder_id \in DOMAIN t._preorder_id_to_node
    THEN {<<t._preorder_id_to_node[postorder_id]>>}
    ELSE {<<>>}

\* tree::get_by_postorder_id: <<node>> when found, <<>> for std::nullopt
get_by_postorder_id(t, postorder_id) ==
    IF postorder_id \in DOMAIN t._postorder_id_node_mapping
    THEN {<<t._postorder_id_node_mapping[postorder_id]>>}
    ELSE {<<>>}

\* tree::get_by_preorder_id: the iterator found in _preorder_id_to_node is
\* compared with the end of _postorder_id_node_mapping.  A found entry is
\* never equal to it.  On a miss the comparison of the two end iterators is
\* undefined: it gives std::nullopt when they compare equal, and otherwise
\* the past-the-end entry is read.
get_by_preorder_id(t, preorder_id) ==
    IF preorder_id \in DOMAIN t._preorder_id_to_node
    THEN {<<t._preorder_id_to_node[preorder_id]>>}
    ELSE {<<>>, <<WILD>>}

\* tree::get_by_label
get_by_label(t, label) ==
    IF label \in DOMAIN t._label_to_node
    THEN {<<t._label_to_node[label]>>}
    ELSE {<<>>}

\* what a call of lca gives: the node it returns, or a crash on the
\* dereference of a null pointer
Returns(node) == [ret |-> node, crashed |-> FALSE]

\* the call dereferenced a null pointer
Crashes == [ret |-> NULL, crashed |-> TRUE]

RECURSIVE LevelLoop(_, _, _)
\* the loops of step 1 of lca: while (x->get_depth() > y->get_depth())
\* x = x->get_parent().  y is not null when a loop starts; NULL is what x
\* is when the loop dereferences a null pointer.
LevelLoop(h, x, y) ==
    IF x = NULL THEN NULL
    ELSE IF h[x]._depth > h[y]._depth THEN LevelLoop(h, h[x]._parent, y)
    ELSE x

RECURSIVE CommonLoop(_, _, _)
\* the loop of step 2 of lca: while (x != y) both go to their parent
CommonLoop(h, x, y) ==
    IF x = y THEN Returns(x)
    ELSE IF x = NULL \/ y = NULL THEN Crashes
    ELSE CommonLoop(h, h[x]._parent, h[y]._parent)

\* lca without the second loop of step 1, the one that lifts y
lca_lifting_x_only(h, x, y) ==
    IF x = NULL \/ y = NULL THEN Crashes
    ELSE LET x1 == LevelLoop(h, x, y)
         IN  IF x1 = NULL THEN Crashes ELSE CommonLoop(h, x1, y)

\* tree::lca(const phylo_node*, const phylo_node*)
lca(h, x, y) ==
    IF x = NULL \/ y = NULL THEN Crashes
    ELSE LET x1 == LevelLoop(h, x, y)
         IN  IF x1 = NULL THEN Crashes
             ELSE LET y1 == LevelLoop(h, y, x1)
                  IN  IF y1 = NULL THEN Crashes ELSE CommonLoop(h, x1, y1)

RECURSIVE LcaLoop(_, _, _)
\* the loop of the multi-node lca over nodes[1..]
LcaLoop(h, current_lca, nodes) ==
    IF nodes = <<>> THEN Returns(current_lca)
    ELSE LET r == lca(h, current_lca, nodes[1])
         IN  IF r.crashed THEN Crashes ELSE LcaLoop(h, r.ret, Tail(nodes))

\* the multi-node lca with current_lca = lca(nodes[i - 1], nodes[i]) in
\* its loop: what it returns is the lca of the last two nodes
lca_nodes_pairwise(h, nodes) ==
    IF nodes = <<>> THEN Returns(NULL)
    ELSE IF Len(nodes) = 1 THEN Returns(nodes[1])
    ELSE lca(h, nodes[Len(nodes) - 1], nodes[Len(nodes)])

\* tree::lca(const std::vector<const phylo_node*>&)
lca_nodes(h, nodes) ==
    IF nodes = <<>> THEN Returns(NULL)
    ELSE LcaLoop(h, nodes[1], Tail(nodes))

\* phylo_node::copy on the heap: one new node for each node of the subtree
\* of n, appended to the heap in pre-order, with the label and the branch
\* length of the node it is made from, the clones of its children in their
\* order, and the clone of its parent as parent; the clone of n has none.
phylo_node_copy(h, n) ==
    LET order == PreOrder(h, n)
        at(m) == CHOOSE i \in 1..Len(order) : order[i] = m
        new(m) == Len(h) + at(m)
        clone(i) ==
            LET m == order[i]
            IN  [phylo_node EXCEPT
                   !._label = h[m]._label,
                   !._branch_length = h[m]._branch_length,
                   !._children = [j \in 1..Len(h[m]._children) |->
                                     new(h[m]._children[j])],
                   !._parent = IF i = 1 THEN NULL ELSE new(h[m]._parent)]
    IN  [heap |-> h \o [i \in 1..Len(order) |-> clone(i)],
         new_root |-> Len(h) + 1]

\* copy() building the new tree on the root of the tree it is called on
copy_shallow(t, h) ==
    IF t._root = NULL
    THEN [tree |-> NoTree, heap |-> h, thrown |-> "crash"]
    ELSE tree_tree(h, t._root)

\* tree::copy: the tree returned, the heap with the new nodes, and what
\* was thrown
copy(t, h) ==
    IF t._root = NULL
    THEN [tree |-> NoTree, heap |-> h, thrown |-> "crash"]
    ELSE LET made == phylo_node_copy(h, t._root)
         IN  tree_tree(made.heap, made.new_root)

\* phylo_node::set_label on the heap
set_label(h, n, label) == [h EXCEPT ![n]._label = label]

\* phylo_node::set_branch_length on the heap
set_branch_length(h, n, length) == [h EXCEPT ![n]._branch_length = length]

\* ------------------------------------------------------------------------
\* State
\* ------------------------------------------------------------------------

VARIABLES
    parser,     \* the newick_parser fed through parse() calls
    inCall,     \* TRUE while the loop of a parse() call is running
    c,          \* the loop variable of parse(): the character just handled
    fed,        \* the characters handed to _parse_character so far
    whole,      \* a second parser, given the same text in one parse() call
    phase,      \* where the text given to parser is cut into two chunks
    source,     \* the nesting a well-formed text was written from
    input,      \* the part of that text not yet given to parser
    reader,     \* the buffered_reader of load_newick and its file
    heap,       \* the nodes a tree is made of
    tree,       \* the tree object
    thrown,     \* what the last operation on the tree threw
    op,         \* the last operation on the tree and its argument
    twin,       \* the tree object returned by copy()
    freed,      \* the nodes deleted by the destructor of a tree
    edits,      \* the number of calls of set_label and set_branch_length
    result,     \* what the last call of lca returned
    outer,      \* the traversal of a loop over the tree
    inner       \* the traversal started in the body of that loop

vars == <<parser, inCall, c, fed, whole, phase, source, input, reader,
          heap, tree, thrown, op, twin, freed, edits, result, outer, inner>>

\* the variables of the parser runs
parserVars == <<parser, inCall, c, fed, whole, phase, source, input,
                reader>>

\* the variables of the tree
treeVars == <<heap, tree, thrown, op, twin, freed, edits, result,
              outer, inner>>

\* the byte '\0'
NUL == "NUL"

\* no buffered_reader was made
NoReader ==
    [file |-> <<>>, good |-> FALSE, _started |-> FALSE, _file_length |-> 0,
     _read |-> 0, _buffer |-> <<>>]

\* the variables of the copy of the tree, of the calls of lca and of the
\* traversals
twinVars == <<twin, freed, edits, result, outer, inner>>

\* a traversal that was not started
NoTraversal == [stack |-> <<>>, yielded |-> <<>>, root |-> NULL]

\* no copy was made, no node deleted, no label changed, no lca asked, no
\* traversal started
InitNoTwin ==
    /\ twin = NoTree
    /\ freed = {}
    /\ edits = 0
    /\ result = [ret |-> NULL, crashed |-> FALSE]
    /\ outer = NoTraversal
    /\ inner = NoTraversal

\* no tree is involved
InitNoTree ==
    /\ heap = <<>>
    /\ tree = NoTree
    /\ thrown = "none"
    /\ op = <<"none", NULL>>
    /\ InitNoTwin

\* ------------------------------------------------------------------------
\* SpecParser: a fresh parser fed arbitrary characters in arbitrary chunks
\* ------------------------------------------------------------------------

InitParser ==
    /\ InitNoTree
    /\ parser = newick_parser
    /\ inCall = FALSE
    /\ c = "none"
    /\ fed = <<>>
    /\ whole = newick_parser
    /\ phase = "none"
    /\ source = <<>>
    /\ input = <<>>
    /\ reader = NoReader

\* one iteration of the loop of parse(): _parse_character(c), then the
\* loop is left when _end_of_file is set (or an exception ended the call)
Iterate(ch) ==
    /\ parser.status = "ok"
    /\ \E q \in _parse_character(parser, ch) :
          /\ parser' = q
          /\ inCall' = (q.status = "ok" /\ ~q._end_of_file)
    /\ c' = ch
    /\ fed' = Append(fed, ch)

\* parse(data) is called with a non-empty chunk: its first iteration
parse_call ==
    /\ ~inCall
    /\ Len(fed) < MaxLen
    /\ \E ch \in Alphabet : Iterate(ch)
    /\ UNCHANGED <<whole, phase, source, input,
                   treeVars, reader>>

\* the next iteration of the running call
parse_next ==
    /\ inCall
    /\ Len(fed) < MaxLen
    /\ \E ch \in Alphabet : Iterate(ch)
    /\ UNCHANGED <<whole, phase, source, input,
                   treeVars, reader>>

\* the chunk is exhausted: parse() returns
parse_return ==
    /\ inCall
    /\ inCall' = FALSE
    /\ UNCHANGED <<parser, c, fed, whole, phase, source, input,
                   treeVars, reader>>

NextParser == parse_call \/ parse_next \/ parse_return

SpecParser == InitParser /\ [][NextParser]_vars

\* ------------------------------------------------------------------------
\* SpecSplit: one text given to `whole` in a single parse() call and to
\* `parser` in two consecutive parse() calls
\* ------------------------------------------------------------------------

\* what the loop of parse() does to p with the next character of its
\* chunk: nothing once the call was left (break, exception, crash); the
\* first character of a call is handled before _end_of_file is looked at
ParseStep(p, ch, firstOfCall) ==
    IF p.status # "ok" THEN {p}
    ELSE IF ~firstOfCall /\ p._end_of_file THEN {p}
    ELSE _parse_character(p, ch)

InitSplit ==
    /\ InitNoTree
    /\ parser = newick_parser
    /\ whole = newick_parser
    /\ phase = "first"
    /\ inCall = FALSE
    /\ c = "none"
    /\ fed = <<>>
    /\ source = <<>>
    /\ input = <<>>
    /\ reader = NoReader

\* the next character of the text reaches both parsers
split_feed ==
    /\ Len(fed) < MaxLen
    /\ \E ch \in Alphabet :
          /\ whole' \in ParseStep(whole, ch, fed = <<>>)
          /\ parser' \in ParseStep(parser, ch, fed = <<>> \/ phase = "cut")
          /\ c' = ch
          /\ fed' = Append(fed, ch)
    /\ phase' = IF phase = "cut" THEN "second" ELSE phase
    /\ UNCHANGED <<inCall, source, input,
                   treeVars, reader>>

\* the first chunk ends here: the first parse() call on parser returns
split_cut ==
    /\ phase = "first"
    /\ phase' = "cut"
    /\ UNCHANGED <<parser, whole, inCall, c, fed, source, input,
                   treeVars, reader>>

NextSplit == split_feed \/ split_cut

SpecSplit == InitSplit /\ [][NextSplit]_vars

\* ------------------------------------------------------------------------
\* SpecWellFormed: a fresh parser fed a well-formed text in arbitrary chunks
\* ------------------------------------------------------------------------

\* number of nodes of the nesting a well-formed text is written from
MaxNodes == 4

\* how a leaf can be written, with the label and the length it denotes
LeafKinds ==
    { [label |-> <<"A">>, len |-> 0,  text |-> <<"A">>],
      [label |-> <<"A">>, len |-> 1,  text |-> <<"A", ":", "1">>],
      [label |-> <<>>,    len |-> 11, text |-> <<":", "1", "1">>],
      [label |-> <<",">>, len |-> 0,  text |-> <<"'", ",", "'">>] }

\* what can be written after the ')' of a group
GroupKinds ==
    { [label |-> <<>>,    len |-> 0,  text |-> <<>>],
      [label |-> <<"A">>, len |-> 0,  text |-> <<"A">>],
      [label |-> <<>>,    len |-> 1,  text |-> <<":", "1">>],
      [label |-> <<"A", "1">>, len |-> 11,
                                      text |-> <<"A", "1", ":", "1", "1">>] }

RECURSIVE TreesOf(_), ForestsOf(_)
\* the nestings of exactly n nodes: <<kind, children>>
TreesOf(n) ==
    IF n = 1 THEN {<<k, <<>>>> : k \in LeafKinds}
    ELSE {<<k, f>> : k \in GroupKinds, f \in ForestsOf(n - 1)}

\* the non-empty sequences of nestings of m nodes in all
ForestsOf(m) ==
    UNION {{<<t>> \o rest : t \in TreesOf(j),
                            rest \in IF j = m THEN {<<>>} ELSE ForestsOf(m - j)}
           : j \in 1..m}

RECURSIVE Written(_), WrittenList(_)
\* the Newick text of a nesting, without the final ';'
Written(t) ==
    (IF t[2] = <<>> THEN <<>> ELSE <<"(">> \o WrittenList(t[2]) \o <<")">>)
    \o t[1].text

\* the comma-separated texts of a list of nestings
WrittenList(f) ==
    IF Len(f) = 1 THEN Written(f[1])
    ELSE Written(f[1]) \o <<",">> \o WrittenList(Tail(f))

RECURSIVE Expected(_)
\* the tree a nesting denotes, in the form Shape gives
Expected(t) ==
    <<t[1].label, t[1].len, [i \in 1..Len(t[2]) |-> Expected(t[2][i])]>>

RECURSIVE Size(_)
\* the number of nodes of a nesting
Size(t) ==
    LET sz[i \in 0..Len(t[2])] == IF i = 0 THEN 0 ELSE sz[i - 1] + Size(t[2][i])
    IN  1 + sz[Len(t[2])]

InitWellFormed ==
    /\ InitNoTree
    /\ source \in UNION {TreesOf(n) : n \in 1..MaxNodes}
    /\ input = Written(source) \o <<";">>
    /\ reader = NoReader
    /\ parser = newick_parser
    /\ inCall = FALSE
    /\ c = "none"
    /\ fed = <<>>
    /\ whole = newick_parser
    /\ phase = "none"

\* parse(data) is called with the next part of the text: first iteration
wf_call ==
    /\ ~inCall
    /\ input # <<>>
    /\ Iterate(Head(input))
    /\ input' = Tail(input)
    /\ UNCHANGED <<whole, phase, source,
                   treeVars, reader>>

\* the next iteration of the running call
wf_next ==
    /\ inCall
    /\ input # <<>>
    /\ Iterate(Head(input))
    /\ input' = Tail(input)
    /\ UNCHANGED <<whole, phase, source,
                   treeVars, reader>>

\* the chunk ends here: parse() returns
wf_return ==
    /\ inCall
    /\ input # <<>>
    /\ inCall' = FALSE
    /\ UNCHANGED <<parser, c, fed, whole, phase, source, input,
                   treeVars, reader>>

NextWellFormed == wf_call \/ wf_next \/ wf_return

SpecWellFormed == InitWellFormed /\ [][NextWellFormed]_vars

\* ------------------------------------------------------------------------
\* SpecTree: a tree built over a forest of nodes, re-rooted and re-indexed
\* ------------------------------------------------------------------------

\* number of nodes of the heap a tree is built over
MaxHeap == 4

\* the labels of the nodes: node i is unnamed or carries a name of its own
LabelsOf(i) == {<<>>, <<"N", ToString(i)>>}

\* the branch lengths of the nodes of a heap of n nodes
BranchLengths(n) ==
    {[i \in 1..n |-> 0], [i \in 1..n |-> 1], [i \in 1..n |-> 2 ^ (i - 1)]}

\* the children of node p under the parent references pv, in the order of
\* their creation
RECURSIVE ChildrenOf(_, _, _)
ChildrenOf(pv, p, i) ==
    IF i > Len(pv) THEN <<>>
    ELSE (IF pv[i] = p THEN <<i>> ELSE <<>>) \o ChildrenOf(pv, p, i + 1)

RECURSIVE Chain(_, _)
\* node k and its ancestors under the parent references pv
Chain(pv, k) == IF k = 0 THEN {} ELSE {k} \cup Chain(pv, pv[k])

\* the parent references of the forests of n nodes, the nodes numbered in
\* the order a parser creates them: a node's parent is the node created
\* just before it or one of that node's ancestors, or it has none
ParentVectors(n) ==
    {f \in [1..n -> 0..(n - 1)] :
        \A i \in 1..n : f[i] = 0 \/ (i > 1 /\ f[i] \in Chain(f, i - 1))}

\* the forests of n nodes
Heaps(n) ==
    {[i \in 1..n |->
        [phylo_node EXCEPT !._label = lb[i], !._branch_length = bl[i],
                           !._parent = pv[i],
                           !._children = ChildrenOf(pv, i, 1)]]
     : pv \in ParentVectors(n),
       lb \in {f \in [1..n -> UNION {LabelsOf(i) : i \in 1..n}] :
                  \A i \in 1..n : f[i] \in LabelsOf(i)},
       bl \in BranchLengths(n)}

InitTree ==
    /\ heap \in UNION {Heaps(n) : n \in 1..MaxHeap}
    /\ tree = NoTree
    /\ thrown = "none"
    /\ op = <<"none", NULL>>
    /\ InitNoTwin
    /\ parser = newick_parser
    /\ inCall = FALSE
    /\ c = "none"
    /\ fed = <<>>
    /\ whole = newick_parser
    /\ phase = "none"
    /\ source = <<>>
    /\ input = <<>>
    /\ reader = NoReader

\* tree t{root} for a node of the heap
construct ==
    /\ ~tree.constructed
    /\ thrown # "crash"
    /\ \E root \in 1..Len(heap) :
          LET r == tree_tree(heap, root)
          IN  /\ tree' = r.tree
              /\ heap' = r.heap
              /\ thrown' = r.thrown
              /\ op' = <<"construct", root>>
    /\ UNCHANGED <<parserVars, twinVars>>

\* t.set_root(root) for a node of the heap or a null pointer
do_set_root ==
    /\ tree.constructed
    /\ thrown # "crash"
    /\ \E root \in 0..Len(heap) :
          /\ tree' = set_root(tree, root)
          /\ op' = <<"set_root", root>>
    /\ thrown' = "none"
    /\ UNCHANGED <<heap, parserVars, twinVars>>

\* t.index()
do_index ==
    /\ tree.constructed
    /\ thrown # "crash"
    /\ LET r == index(State(tree, heap))
       IN  /\ tree' = r.tree
           /\ heap' = r.heap
           /\ thrown' = r.thrown
    /\ op' = <<"index", NULL>>
    /\ UNCHANGED <<parserVars, twinVars>>

NextTree == construct \/ do_set_root \/ do_index

SpecTree == InitTree /\ [][NextTree]_vars

TypeOK ==
    /\ parser.status \in {"ok", "error", "crashed"}
    /\ Len(fed) <= MaxLen
    /\ Len(parser.nodes) <= MaxLen

\* ------------------------------------------------------------------------
\* Vocabulary of the properties of the parser
\* ------------------------------------------------------------------------

\* the set of the elements of a sequence
Range(s) == {s[i] : i \in 1..Len(s)}

\* the number of quote characters among the first n characters of s
QuotesBefore(s, n) == Cardinality({i \in 1..n : s[i] = "'"})

\* position i of s lies outside every quoted section
Unquoted(s, i) == QuotesBefore(s, i - 1) % 2 = 0

\* a ';' outside a quoted section is among the characters handled so far
SemicolonProcessed ==
    \E i \in 1..Len(fed) : fed[i] = ";" /\ Unquoted(fed, i)

\* this step handed a character to _parse_character
Handled == fed' # fed

\* this step handled ')' ',' or ';' outside a quoted section: it closes
\* the pending text
ClosingStep ==
    Handled /\ ~parser._parsing_text /\ c' \in {")", ",", ";"}

\* the node on top of the pending-node stack
TopNode == parser._node_stack[Len(parser._node_stack)]

\* the positions of ':' in the pending text
Colons == {i \in 1..Len(parser._node_text) : parser._node_text[i] = ":"}

\* k is the position of the last ':' of the pending text
LastColon(k) == k \in Colons /\ \A j \in Colons : j <= k

\* s is a well-formed number: one digit or more and nothing else
WellFormedNumber(s) == s # <<>> /\ Range(s) \subseteq Digits

\* the number written by n digits '1'
RECURSIVE Ones(_)
Ones(n) == IF n = 0 THEN 0 ELSE 10 * Ones(n - 1) + 1

\* ------------------------------------------------------------------------
\* C1
\* ------------------------------------------------------------------------

\* C1: whatever the text and wherever it is cut, the parser given the text
\* in two consecutive parse() calls ends with the same get_root() result
\* (shape, child order, labels, branch lengths, or no root) as the parser
\* given it in one call.  Stated for the runs in which top() and pop() were
\* never called on an empty stack.
C1_SplitEquivalence ==
    (~whole.ub /\ ~parser.ub) => RootShape(parser) = RootShape(whole)

\* ------------------------------------------------------------------------
\* C2
\* ------------------------------------------------------------------------

\* node n lists children whose parent reference is n
ParentsConsistent(nodes) ==
    \A n \in 1..Len(nodes) : \A i \in 1..Len(nodes[n]._children) :
        nodes[nodes[n]._children[i]]._parent = n

\* C2: after a well-formed text, the root mirrors the nesting of the text:
\* one node per group and per leaf and no other, children in the order
\* written, the text after a ')' on the group's node, every child's parent
\* the node that lists it, and the root without a parent.
C2_MirrorsNesting ==
    input = <<>> /\ source # <<>> =>
        /\ parser.status = "ok" /\ ~parser.ub
        /\ get_root(parser) \in 1..Len(parser.nodes)
        /\ RootShape(parser) = Expected(source)
        /\ Len(parser.nodes) = Size(source)
        /\ ParentsConsistent(parser.nodes)
        /\ parser.nodes[get_root(parser)]._parent = NULL
        /\ parser._node_stack = <<>>

\* a text with a labelled group inside a group was parsed to its end
C2_Witness ==
    /\ input = <<>> /\ source # <<>>
    /\ Len(parser.nodes) = MaxNodes
    /\ \E n \in 1..Len(parser.nodes) :
          /\ parser.nodes[n]._parent # NULL
          /\ parser.nodes[n]._children # <<>>
          /\ parser.nodes[n]._label # <<>>
          /\ parser.nodes[n]._branch_length # 0

\* ------------------------------------------------------------------------
\* C3
\* ------------------------------------------------------------------------

\* C3: as long as no ';' outside a quoted section has been handled,
\* get_root() is null, whatever the characters and the chunks were.
C3_NoRootBeforeSemicolon ==
    ~SemicolonProcessed => get_root(parser) = NULL

\* a ';' was handled inside a quoted section, a node exists, and a ')'
\* closed it: still no root
C3_Witness ==
    /\ ~SemicolonProcessed
    /\ ";" \in Range(fed)
    /\ \E i \in 1..Len(fed) : fed[i] = ")" /\ Unquoted(fed, i)
    /\ parser.nodes # <<>>
    /\ parser.status = "ok"
    /\ get_root(parser) = NULL

\* ------------------------------------------------------------------------
\* C4
\* ------------------------------------------------------------------------

\* C4: once the terminating ';' has been handled, no later character, in
\* the same chunk or in a later parse() call, creates a node, touches the
\* pending-node stack or changes get_root().
C4_ParsingEnded ==
    [][(parser._end_of_file /\ ~parser.ub) =>
          /\ Len(parser'.nodes) = Len(parser.nodes)
          /\ parser'._node_stack = parser._node_stack
          /\ get_root(parser') = get_root(parser)]_vars

\* ------------------------------------------------------------------------
\* C5
\* ------------------------------------------------------------------------

\* this step handled one of ( ) , ; inside a quoted section
QuotedStructuralStep ==
    Handled /\ parser._parsing_text /\ c' \in Structural

\* the step left every node that existed as it was, and the root too
NoAttachmentNoEnd ==
    /\ \A n \in 1..Len(parser.nodes) : parser'.nodes[n] = parser.nodes[n]
    /\ parser'._end_of_file = parser._end_of_file
    /\ get_root(parser') = get_root(parser)
    /\ parser'._parsing_text

\* no quote character is part of a label or of the pending text
NoQuoteInLabels ==
    /\ "'" \notin Range(parser._node_text)
    /\ \A n \in 1..Len(parser.nodes) : "'" \notin Range(parser.nodes[n]._label)

\* C5 as stated: inside a quoted section each of ( ) , ; is appended to the
\* pending text and causes no push, pop, attachment or end of parsing, and
\* the quote characters are never part of a label.
C5_QuotedIsLiteral_Original ==
    /\ []NoQuoteInLabels
    /\ [][QuotedStructuralStep =>
             /\ parser'._node_text = Append(parser._node_text, c')
             /\ parser'._node_stack = parser._node_stack
             /\ Len(parser'.nodes) = Len(parser.nodes)
             /\ NoAttachmentNoEnd]_vars

\* C5 amended: inside a quoted section each of ( ) , ; is handled as
\* ordinary text: it is appended to the pending text, after one new leaf
\* has been pushed when no node text was in progress, and causes no pop, no
\* attachment and no end of parsing; quote characters are never part of a
\* label.
C5_QuotedIsLiteral ==
    /\ []NoQuoteInLabels
    /\ [][QuotedStructuralStep =>
             /\ parser'._node_text = Append(parser._node_text, c')
             /\ IF parser._parsing_node
                THEN /\ parser'._node_stack = parser._node_stack
                     /\ Len(parser'.nodes) = Len(parser.nodes)
                ELSE /\ Len(parser'.nodes) = Len(parser.nodes) + 1
                     /\ parser'._node_stack =
                            Append(parser._node_stack, Len(parser'.nodes))
             /\ NoAttachmentNoEnd]_vars

\* each of ( ) , ; was handled inside one quoted section, while a node's
\* text was in progress, and ended up in the pending text
C5_Witness ==
    /\ parser._parsing_text
    /\ Structural \subseteq Range(parser._node_text)
    /\ Len(parser.nodes) = 1
    /\ parser._node_stack = <<1>>

\* ------------------------------------------------------------------------
\* C6
\* ------------------------------------------------------------------------

\* C6: when the pending text T of the node on top of the stack is closed
\* and the call returns, the pending text is empty afterwards and
\*   - T empty: label and branch length stay at their defaults;
\*   - T without ':': the label is T, the branch length stays 0;
\*   - T starting with ':': the label stays empty;
\*   - otherwise the label is T up to its last ':';
\*   - the branch length is the number written after the last ':'.
C6_NodeTextClosed ==
    [][(ClosingStep /\ parser._node_stack # <<>> /\ parser'.status = "ok") =>
          LET T   == parser._node_text
              new == parser'.nodes[TopNode]
          IN  /\ parser'._node_text = <<>>
              /\ T = <<>> => new._label = <<>> /\ new._branch_length = 0
              /\ (T # <<>> /\ Colons = {}) =>
                     new._label = T /\ new._branch_length = 0
              /\ \A k \in 1..Len(T) : LastColon(k) =>
                     /\ new._label = IF T[1] = ":" THEN <<>>
                                     ELSE SubSeq(T, 1, k - 1)
                     /\ WellFormedNumber(SubSeq(T, k + 1, Len(T))) =>
                            new._branch_length = Ones(Len(T) - k)]_vars

\* a text with two ':' was closed: the label kept the first ':' and the
\* branch length is the number after the second
C6_Witness ==
    \E n \in 1..Len(parser.nodes) :
        /\ parser.nodes[n]._label = <<"A", ":">>
        /\ parser.nodes[n]._branch_length = 1
        /\ parser._node_text = <<>>
        /\ ~parser.ub

\* ------------------------------------------------------------------------
\* C7
\* ------------------------------------------------------------------------

\* C7: closing a pending text whose part after the last ':' is not a
\* well-formed number (empty, non-numeric, or a number followed by other
\* characters) fails with an error, and no root becomes available.
C7_MalformedLengthIsFatal ==
    [][(ClosingStep /\ parser._node_stack # <<>> /\ ~parser._end_of_file
           /\ ~parser.ub) =>
          \A k \in 1..Len(parser._node_text) :
             (LastColon(k) /\ ~WellFormedNumber(
                 SubSeq(parser._node_text, k + 1, Len(parser._node_text))))
             => (parser'.status = "error" /\ get_root(parser') = NULL)]_vars
\* ------------------------------------------------------------------------
\* Vocabulary of the properties of the tree
\* ------------------------------------------------------------------------

RECURSIVE AncestorsOrSelf(_, _)
\* node n and the nodes on its chain of parent references
AncestorsOrSelf(h, n) ==
    IF n = NULL THEN {} ELSE {n} \cup AncestorsOrSelf(h, h[n]._parent)

\* node r and everything below it
InSubtree(h, r) == {m \in 1..Len(h) : r \in AncestorsOrSelf(h, m)}

\* a lies in a subtree to the left of the subtree b lies in
LeftOf(h, a, b) ==
    \E x \in 1..Len(h) : \E i, j \in 1..Len(h[x]._children) :
        /\ i < j
        /\ a \in InSubtree(h, h[x]._children[i])
        /\ b \in InSubtree(h, h[x]._children[j])

\* a comes before b when children are visited left to right, then the node
PostBefore(h, a, b) == (a # b /\ a \in InSubtree(h, b)) \/ LeftOf(h, a, b)

\* a comes before b when the node is visited, then its children left to
\* right
PreBefore(h, a, b) == (a # b /\ b \in InSubtree(h, a)) \/ LeftOf(h, a, b)

\* the last operation built or re-indexed the tree and did not throw
Indexed ==
    tree.constructed /\ thrown = "none" /\ op[1] \in {"construct", "index"}

\* the nodes of the tree
TreeNodes == InSubtree(heap, tree._root)

\* ------------------------------------------------------------------------
\* C8
\* ------------------------------------------------------------------------

\* this step constructs a tree from a node that has a parent, or
\* re-indexes a tree whose root has a parent
RootHasParentStep ==
    \/ op'[1] = "construct" /\ ~tree.constructed
          /\ heap[op'[2]]._parent # NULL
    \/ op'[1] = "index" /\ tree.constructed /\ tree._root # NULL
          /\ heap[tree._root]._parent # NULL

\* C8: constructing a tree from, or re-indexing a tree rooted at, a node
\* with a parent fails with the ownership-violation error before any phase
\* has run: no field of any node is written, no table and no count changes,
\* and no tree object comes to exist.
C8_OwnershipViolation ==
    [][RootHasParentStep =>
          /\ thrown' = "invalid_argument"
          /\ heap' = heap
          /\ tree'._preorder_id_to_node = tree._preorder_id_to_node
          /\ tree'._postorder_id_node_mapping = tree._postorder_id_node_mapping
          /\ tree'._label_to_node = tree._label_to_node
          /\ get_node_count(tree') = get_node_count(tree)
          /\ tree'.constructed = tree.constructed]_vars

\* an indexed tree was given a root that has a parent, and index() threw
C8_Witness ==
    /\ op[1] = "index"
    /\ thrown = "invalid_argument"
    /\ heap[tree._root]._parent # NULL
    /\ get_node_count(tree) > 1
    /\ heap[tree._root]._postorder_id # INVALID

\* ------------------------------------------------------------------------
\* C9
\* ------------------------------------------------------------------------

\* C9: after index() on a tree of n nodes the count is n, the post-order
\* ids are exactly 0..n-1, one node each, in the order children-then-node,
\* and the pre-order ids are exactly 0..n-1, one node each, in the order
\* node-then-children.
C9_DenseIds ==
    Indexed =>
        LET n == Cardinality(TreeNodes)
        IN  /\ get_node_count(tree) = n
            /\ {heap[m]._postorder_id : m \in TreeNodes} = 0..(n - 1)
            /\ {heap[m]._preorder_id : m \in TreeNodes} = 0..(n - 1)
            /\ \A a, b \in TreeNodes : a # b =>
                  /\ heap[a]._postorder_id # heap[b]._postorder_id
                  /\ heap[a]._preorder_id # heap[b]._preorder_id
                  /\ PostBefore(heap, a, b) <=>
                        heap[a]._postorder_id < heap[b]._postorder_id
                  /\ PreBefore(heap, a, b) <=>
                        heap[a]._preorder_id < heap[b]._preorder_id

\* a tree whose root has two subtrees, one of them with a child, was
\* indexed
C9_Witness ==
    /\ Indexed
    /\ get_node_count(tree) = 4
    /\ Len(heap[tree._root]._children) = 2
    /\ \E m \in TreeNodes : m # tree._root /\ heap[m]._children # <<>>

\* ------------------------------------------------------------------------
\* C10
\* ------------------------------------------------------------------------

\* C10: in an indexed tree, looking a node up by its post-order id and by
\* its pre-order id gives that very node.
C10_LookupById ==
    Indexed =>
        \A N \in TreeNodes :
            /\ get_by_postorder_id(tree, heap[N]._postorder_id) = {<<N>>}
            /\ get_by_preorder_id(tree, heap[N]._preorder_id) = {<<N>>}

\* a tree was re-indexed after a change of root, and it has a node whose
\* two ids differ
C10_Witness ==
    /\ Indexed
    /\ op[1] = "index"
    /\ \E m \in 1..Len(heap) : m \notin TreeNodes /\ heap[m]._postorder_id # INVALID
    /\ \E N \in TreeNodes : heap[N]._postorder_id # heap[N]._preorder_id

\* ------------------------------------------------------------------------
\* C11
\* ------------------------------------------------------------------------

\* the nodes of the tree that carry the label of node N
SameLabel(N) == {m \in TreeNodes : heap[m]._label = heap[N]._label}

\* phylo_node::operator== compares the id and the label
NodesEqual(a, b) ==
    /\ heap[a]._label = heap[b]._label
    /\ heap[a]._postorder_id = heap[b]._postorder_id

\* C11 as stated: in an indexed tree, get_by_label(N.label) returns a node
\* equal to N by label and post-order id, for every node N.
C11_LookupByLabel_Original ==
    Indexed =>
        \A N \in TreeNodes :
            \E M \in TreeNodes :
                /\ get_by_label(tree, heap[N]._label) = {<<M>>}
                /\ NodesEqual(M, N)

\* C11: in an indexed tree, get_by_label(N.label) returns the node with the
\* greatest post-order id among the nodes that carry the label of N; it is
\* equal to N by label and post-order id when no other node carries that
\* label.
C11_LookupByLabel ==
    Indexed =>
        \A N \in TreeNodes :
            \E M \in SameLabel(N) :
                /\ get_by_label(tree, heap[N]._label) = {<<M>>}
                /\ \A m \in SameLabel(N) :
                      heap[m]._postorder_id <= heap[M]._postorder_id
                /\ SameLabel(N) = {N} => NodesEqual(M, N)

\* an indexed tree in which the root and one of its descendants carry the
\* same label, and another node carries a label of its own
C11_Witness ==
    /\ Indexed
    /\ \E N \in TreeNodes \ {tree._root} : tree._root \in SameLabel(N)
    /\ \E N \in TreeNodes : SameLabel(N) = {N}

\* ------------------------------------------------------------------------
\* C12
\* ------------------------------------------------------------------------

\* ids next to the range 0..node_count-1 and outside it
IdsOutside == {-1, get_node_count(tree), get_node_count(tree) + 1}

\* labels that no node of the tree carries
LabelsAbsent ==
    {l \in {<<"Z">>, <<"N", "0">>, <<>>} :
        \A m \in TreeNodes : heap[m]._label # l}

\* C12: in an indexed tree, get_by_preorder_id and get_by_postorder_id with
\* an id outside 0..node_count-1 and get_by_label with a label that no node
\* carries each return the not-found result, and nothing else.  (The
\* lookups are operators of the tree and the heap: they change neither.)
C12_SilentMiss ==
    Indexed =>
        /\ \A id \in IdsOutside :
              /\ get_by_postorder_id(tree, id) = {<<>>}
              /\ get_by_preorder_id(tree, id) = {<<>>}
        /\ \A l \in LabelsAbsent : get_by_label(tree, l) = {<<>>}

\* the part of C12 that the code keeps: the misses of get_by_postorder_id
\* and of get_by_label
C12_SilentMiss_PostorderAndLabel ==
    Indexed =>
        /\ \A id \in IdsOutside : get_by_postorder_id(tree, id) = {<<>>}
        /\ \A l \in LabelsAbsent : get_by_label(tree, l) = {<<>>}

\* ------------------------------------------------------------------------
\* C13
\* ------------------------------------------------------------------------

\* the number of edges on the path from node n to the root of its tree
EdgesToRoot(n) == Cardinality(AncestorsOrSelf(heap, n)) - 1

\* C13: after index() the depth of the root is 0 and the depth of every
\* other node of the tree is the depth of its parent plus 1, which is the
\* number of edges on its path to the root.
C13_Depth ==
    Indexed =>
        /\ heap[tree._root]._depth = 0
        /\ \A N \in TreeNodes \ {tree._root} :
              heap[N]._depth = heap[heap[N]._parent]._depth + 1
        /\ \A N \in TreeNodes : heap[N]._depth = EdgesToRoot(N)

\* an indexed tree with a node two edges below the root and a leaf just
\* below the root
C13_Witness ==
    /\ Indexed
    /\ \E N, M \in TreeNodes :
          /\ heap[N]._depth = 2
          /\ heap[M]._depth = 1 /\ is_leaf(heap[M])

\* ------------------------------------------------------------------------
\* C14
\* ------------------------------------------------------------------------

\* the nodes strictly below node N
Below(N) == InSubtree(heap, N) \ {N}

RECURSIVE LengthOf(_)
\* the sum of the branch lengths of a set of nodes
LengthOf(S) ==
    IF S = {} THEN 0
    ELSE LET m == CHOOSE x \in S : TRUE
         IN  heap[m]._branch_length + LengthOf(S \ {m})

\* C14: after index(), for every node N of the tree, num_nodes is the
\* number of nodes strictly below N, num_leaves is the number of leaves in
\* the subtree of N, and subtree_branch_length is the sum of the branch
\* lengths of the nodes strictly below N; for a leaf they are 0, 1 and 0.
C14_Aggregates ==
    Indexed =>
        \A N \in TreeNodes :
            /\ heap[N]._num_nodes = Cardinality(Below(N))
            /\ heap[N]._num_leaves =
                  Cardinality({m \in InSubtree(heap, N) : is_leaf(heap[m])})
            /\ heap[N]._subtree_branch_length = LengthOf(Below(N))
            /\ is_leaf(heap[N]) =>
                  /\ heap[N]._num_nodes = 0
                  /\ heap[N]._num_leaves = 1
                  /\ heap[N]._subtree_branch_length = 0

\* an indexed tree of four nodes with two leaves, a node two edges below
\* the root and branch lengths that differ from node to node
C14_Witness ==
    /\ Indexed
    /\ get_node_count(tree) = 4
    /\ heap[tree._root]._num_leaves = 2
    /\ \E N \in TreeNodes : Cardinality(AncestorsOrSelf(heap, N)) = 3
    /\ \A N, M \in TreeNodes :
          N # M => heap[N]._branch_length # heap[M]._branch_length

\* ------------------------------------------------------------------------
\* C15
\* ------------------------------------------------------------------------

RECURSIVE TraversalLength(_)
\* the sum of branch_length over the nodes a traversal yields, in the order
\* it yields them
TraversalLength(order) ==
    IF order = <<>> THEN 0
    ELSE heap[order[1]]._branch_length + TraversalLength(Tail(order))

\* the sum of the branch lengths of the direct children of node N
ChildrenLength(N) == TraversalLength(heap[N]._children)

\* C15 as stated: in an indexed tree, the branch lengths of a pre-order or
\* post-order traversal rooted at N sum to N.subtree_branch_length plus the
\* branch lengths of the direct children of N, and the traversal from the
\* root sums to the total branch length of the tree.
C15_TraversalLength_Original ==
    Indexed =>
        /\ \A N \in TreeNodes :
              /\ TraversalLength(PostOrder(heap, N)) =
                    heap[N]._subtree_branch_length + ChildrenLength(N)
              /\ TraversalLength(PreOrder(heap, N)) =
                    heap[N]._subtree_branch_length + ChildrenLength(N)
        /\ TraversalLength(PostOrder(heap, tree._root)) = LengthOf(TreeNodes)
        /\ TraversalLength(PreOrder(heap, tree._root)) = LengthOf(TreeNodes)

\* C15: in an indexed tree, the branch lengths of a pre-order or post-order
\* traversal rooted at N sum to the branch length of N plus
\* N.subtree_branch_length, and the traversal from the root sums to the
\* total branch length of the tree.
C15_TraversalLength ==
    Indexed =>
        /\ \A N \in TreeNodes :
              /\ TraversalLength(PostOrder(heap, N)) =
                    heap[N]._branch_length + heap[N]._subtree_branch_length
              /\ TraversalLength(PreOrder(heap, N)) =
                    heap[N]._branch_length + heap[N]._subtree_branch_length
        /\ TraversalLength(PostOrder(heap, tree._root)) = LengthOf(TreeNodes)
        /\ TraversalLength(PreOrder(heap, tree._root)) = LengthOf(TreeNodes)

\* an indexed tree with an inner node, other than the root, whose own
\* branch length differs from the sum of those of its children
C15_Witness ==
    /\ Indexed
    /\ \E N \in TreeNodes \ {tree._root} :
          /\ ~is_leaf(heap[N])
          /\ heap[N]._branch_length # ChildrenLength(N)
          /\ heap[N]._subtree_branch_length > 0

\* ------------------------------------------------------------------------
\* C16
\* ------------------------------------------------------------------------

\* the sequence yields every node of the set S once, and nothing else
YieldsOnce(order, S) ==
    /\ Range(order) = S
    /\ Len(order) = Cardinality(S)

\* C16: a traversal started with visit_subtree(N) at any node N, root or
\* not, is a finite sequence that yields N and every descendant of N
\* exactly once and no other node, so that the branch lengths it yields sum
\* to the branch length of N plus those of all the nodes below N.
C16_SubtreeOnly ==
    \A N \in 1..Len(heap) :
        /\ YieldsOnce(visit_subtree(heap, N), InSubtree(heap, N))
        /\ YieldsOnce(PreOrder(heap, N), InSubtree(heap, N))
        /\ \A m \in Range(visit_subtree(heap, N)) :
              m = N \/ m \notin AncestorsOrSelf(heap, N)
        /\ TraversalLength(visit_subtree(heap, N)) =
              heap[N]._branch_length + LengthOf(Below(N))

\* an indexed tree with a node that has a parent, a sibling and a child,
\* each with a branch length of its own
C16_Witness ==
    /\ Indexed
    /\ \E N \in TreeNodes :
          /\ heap[N]._parent # NULL
          /\ Len(heap[heap[N]._parent]._children) = 2
          /\ ~is_leaf(heap[N])
          /\ heap[N]._branch_length # heap[heap[N]._parent]._branch_length
          /\ heap[N]._subtree_branch_length > 0

\* ------------------------------------------------------------------------
\* C17
\* ------------------------------------------------------------------------

\* the k-th node of the sequence has the post-order id k, counting from 0,
\* there are node_count of them and the root is the last
YieldsInPostorder(order) ==
    /\ Len(order) = get_node_count(tree)
    /\ \A k \in 0..(get_node_count(tree) - 1) :
          heap[order[k + 1]]._postorder_id = k
    /\ order[Len(order)] = tree._root

\* C17: iterating an indexed tree from begin() to end(), const or mutable,
\* yields the nodes in post-order from the root: the k-th node yielded has
\* the post-order id k, for k = 0..node_count-1, and the root comes last.
C17_IterationOrder ==
    Indexed =>
        /\ YieldsInPostorder(tree_begin_const(tree, heap))
        /\ YieldsInPostorder(tree_begin(tree, heap))

\* an indexed tree of four nodes in which the pre-order and the post-order
\* differ in every position
C17_Witness ==
    /\ Indexed
    /\ get_node_count(tree) = 4
    /\ \A N \in TreeNodes : heap[N]._postorder_id # heap[N]._preorder_id

\* ------------------------------------------------------------------------
\* SpecLca: calls of lca on the nodes of a tree built on some of the nodes
\* of a heap
\* ------------------------------------------------------------------------

\* the longest list of nodes given to the multi-node lca
MaxList == 3

\* the lists of at most n nodes of the set S
ListsOf(S, n) == UNION {[1..k -> S] : k \in 0..n}

\* every node has a label of its own and the branch length 0
InitLca ==
    /\ InitTree
    /\ \A i \in 1..Len(heap) :
          heap[i]._label # <<>> /\ heap[i]._branch_length = 0

\* a call of lca has returned and its result is still with the caller
LcaReturned == op[1] \in {"lca", "lca_nodes"}

\* t.lca(x, y) for two nodes of the tree
do_lca ==
    /\ tree.constructed
    /\ ~LcaReturned
    /\ \E x, y \in InSubtree(heap, tree._root) :
          /\ result' = lca(heap, x, y)
          /\ op' = <<"lca", x, y>>
    /\ UNCHANGED <<outer, inner, heap, tree, thrown, twin, freed, edits,
                   parserVars>>

\* t.lca(nodes) for a list of nodes of the tree
do_lca_nodes ==
    /\ tree.constructed
    /\ ~LcaReturned
    /\ \E nodes \in ListsOf(InSubtree(heap, tree._root), MaxList) :
          /\ result' = lca_nodes(heap, nodes)
          /\ op' = <<"lca_nodes", nodes>>
    /\ UNCHANGED <<outer, inner, heap, tree, thrown, twin, freed, edits,
                   parserVars>>

\* the caller is done with the node lca returned
lca_done ==
    /\ LcaReturned
    /\ op' = <<"none", NULL>>
    /\ result' = Returns(NULL)
    /\ UNCHANGED <<outer, inner, heap, tree, thrown, twin, freed, edits,
                   parserVars>>

NextLca == construct \/ do_lca \/ do_lca_nodes \/ lca_done

SpecLca == InitLca /\ [][NextLca]_vars

\* ------------------------------------------------------------------------
\* SpecCopy: a tree is built, copied, and then either tree has labels and
\* branch lengths of its nodes changed, is re-indexed or is destroyed
\* ------------------------------------------------------------------------

\* the number of calls of set_label and set_branch_length in a run
MaxEdits == 1

\* the number of nodes of the tree that is copied
MaxCopied == 3

\* the label set_label is called with
NewLabel == <<"X">>

\* the branch length set_branch_length is called with
NewLength == 7

\* the nodes a tree object owns
OwnNodes(t) == IF t.constructed THEN InSubtree(heap, t._root) ELSE {}

\* the heap holds one tree, rooted at its first node; its branch lengths
\* differ from node to node; either every node has a label of its own or
\* none has a label
InitCopy ==
    /\ InitTree
    /\ Len(heap) <= MaxCopied
    /\ \A i \in 1..Len(heap) :
          /\ heap[i]._branch_length = 2 ^ (i - 1)
          /\ i > 1 => heap[i]._parent # NULL
    /\ \/ \A i \in 1..Len(heap) : heap[i]._label = <<>>
       \/ \A i \in 1..Len(heap) : heap[i]._label # <<>>

\* auto twin = t.copy()
do_copy ==
    /\ tree.constructed
    /\ ~twin.constructed
    /\ Len(heap) <= MaxCopied
    /\ LET r == copy(tree, heap)
       IN  /\ twin' = r.tree
           /\ heap' = r.heap
           /\ thrown' = r.thrown
    /\ op' = <<"copy", NULL>>
    /\ UNCHANGED <<outer, inner, tree, freed, edits, result, parserVars>>

\* node->set_label(NewLabel) for a node of one of the two trees
do_set_label ==
    /\ edits < MaxEdits
    /\ \E n \in OwnNodes(tree) \cup OwnNodes(twin) :
          /\ heap' = set_label(heap, n, NewLabel)
          /\ op' = <<"set_label", n>>
    /\ edits' = edits + 1
    /\ UNCHANGED <<outer, inner, tree, twin, thrown, freed, result,
                   parserVars>>

\* node->set_branch_length(NewLength) for a node of one of the two trees
do_set_branch_length ==
    /\ edits < MaxEdits
    /\ \E n \in OwnNodes(tree) \cup OwnNodes(twin) :
          /\ heap' = set_branch_length(heap, n, NewLength)
          /\ op' = <<"set_branch_length", n>>
    /\ edits' = edits + 1
    /\ UNCHANGED <<outer, inner, tree, twin, thrown, freed, result,
                   parserVars>>

\* t.index() on the tree that is copied
tree_index ==
    /\ tree.constructed
    /\ LET r == index(State(tree, heap))
       IN  /\ tree' = r.tree
           /\ heap' = r.heap
           /\ thrown' = r.thrown
    /\ op' = <<"index", NULL>>
    /\ UNCHANGED <<outer, inner, twin, freed, edits, result, parserVars>>

\* twin.index()
twin_index ==
    /\ twin.constructed
    /\ LET r == index(State(twin, heap))
       IN  /\ twin' = r.tree
           /\ heap' = r.heap
           /\ thrown' = r.thrown
    /\ op' = <<"twin_index", NULL>>
    /\ UNCHANGED <<outer, inner, tree, freed, edits, result, parserVars>>

\* tree::~tree on the tree that is copied: delete _root deletes every node
\* of the tree
tree_destroy ==
    /\ tree.constructed
    /\ freed' = freed \cup OwnNodes(tree)
    /\ tree' = NoTree
    /\ op' = <<"destroy", NULL>>
    /\ UNCHANGED <<outer, inner, heap, twin, thrown, edits, result,
                   parserVars>>

\* tree::~tree on the copy
twin_destroy ==
    /\ twin.constructed
    /\ freed' = freed \cup OwnNodes(twin)
    /\ twin' = NoTree
    /\ op' = <<"twin_destroy", NULL>>
    /\ UNCHANGED <<outer, inner, heap, tree, thrown, edits, result,
                   parserVars>>

NextCopy ==
    \/ construct /\ freed = {}
    \/ do_copy
    \/ do_set_label
    \/ do_set_branch_length
    \/ tree_index
    \/ twin_index
    \/ tree_destroy
    \/ twin_destroy

SpecCopy == InitCopy /\ [][NextCopy]_vars

\* ------------------------------------------------------------------------
\* C18
\* ------------------------------------------------------------------------

\* the nodes that are an ancestor-or-self of every node of the set S
CommonAncestors(S) ==
    {a \in 1..Len(heap) : \A n \in S : a \in AncestorsOrSelf(heap, n)}

\* node a is the deepest of the common ancestors of S: every other one is
\* on its chain of parents
IsDeepestCommon(a, S) ==
    /\ a \in CommonAncestors(S)
    /\ CommonAncestors(S) \subseteq AncestorsOrSelf(heap, a)

\* the last call was lca(x, y) for two nodes of the tree
LcaOfTreeNodes ==
    /\ op[1] = "lca"
    /\ {op[2], op[3]} \subseteq TreeNodes

\* C18: for two nodes x and y of the same indexed tree, lca(x, y) returns,
\* without failing, the deepest node that is an ancestor-or-self of both;
\* lca(x, x) = x, lca(x, a) = a when a is an ancestor of x, and
\* lca(x, y) = lca(y, x).
C18_Lca ==
    LcaOfTreeNodes =>
        LET x == op[2]
            y == op[3]
        IN  /\ ~result.crashed
            /\ IsDeepestCommon(result.ret, {x, y})
            /\ x = y => result.ret = x
            /\ y \in AncestorsOrSelf(heap, x) => result.ret = y
            /\ lca(heap, y, x) = result

\* lca was called for two nodes at different depths, neither an ancestor
\* of the other, and returned a third node
C18_Witness ==
    /\ LcaOfTreeNodes
    /\ heap[op[2]]._depth < heap[op[3]]._depth
    /\ op[2] \notin AncestorsOrSelf(heap, op[3])
    /\ ~result.crashed
    /\ result.ret \notin {op[2], op[3]}

\* ------------------------------------------------------------------------
\* C19
\* ------------------------------------------------------------------------

\* the last call was the multi-node lca
LcaOfList == op[1] = "lca_nodes"

\* C19: the multi-node lca returns null for an empty list and the node
\* itself for a list of one node; for a list of two or more nodes of the
\* same indexed tree it returns, without failing, the deepest node that is
\* an ancestor-or-self of every node of the list, and so does it for every
\* other order of the list and with entries repeated.
C19_LcaOfList ==
    LcaOfList =>
        LET nodes == op[2]
        IN  /\ nodes = <<>> => result = Returns(NULL)
            /\ Len(nodes) = 1 => result = Returns(nodes[1])
            /\ (Len(nodes) >= 2 /\ Range(nodes) \subseteq TreeNodes) =>
                  /\ ~result.crashed
                  /\ IsDeepestCommon(result.ret, Range(nodes))
                  /\ \A other \in ListsOf(Range(nodes), MaxList) :
                        Range(other) = Range(nodes) =>
                            lca_nodes(heap, other) = result

\* the multi-node lca was called for three different nodes, the lca of the
\* first two is not the lca of the last two, and the call returned the
\* root
C19_Witness ==
    /\ LcaOfList
    /\ Len(op[2]) = 3
    /\ Cardinality(Range(op[2])) = 3
    /\ Range(op[2]) \subseteq TreeNodes
    /\ lca(heap, op[2][1], op[2][2]) # lca(heap, op[2][2], op[2][3])
    /\ result = Returns(tree._root)

\* ------------------------------------------------------------------------
\* C20
\* ------------------------------------------------------------------------

RECURSIVE Picture(_, _), PictureList(_, _)
\* everything a subtree holds but the identity of its nodes: labels, branch
\* lengths, ids, depths and aggregates, children in their order
Picture(h, n) ==
    <<h[n]._label, h[n]._branch_length, h[n]._preorder_id,
      h[n]._postorder_id, h[n]._depth, h[n]._num_nodes, h[n]._num_leaves,
      h[n]._subtree_branch_length, PictureList(h, h[n]._children)>>

\* the pictures of a list of nodes
PictureList(h, ns) ==
    IF ns = <<>> THEN <<>> ELSE <<Picture(h, ns[1])>> \o PictureList(h, Tail(ns))

\* this step copies a tree right after it was built or re-indexed
CopyStep == Indexed /\ op'[1] = "copy"

\* the copy is a tree like the one copied, made of nodes of its own, with
\* tables that have the same keys, and the tree copied is left as it was
CopyIsFaithful ==
    CopyStep =>
        /\ twin'.constructed /\ thrown' = "none"
        /\ Picture(heap', twin'._root) = Picture(heap, tree._root)
        /\ heap'[twin'._root]._parent = NULL
        /\ get_node_count(twin') = get_node_count(tree)
        /\ InSubtree(heap', twin'._root) \cap InSubtree(heap', tree'._root) = {}
        /\ DOMAIN twin'._label_to_node = DOMAIN tree._label_to_node
        /\ DOMAIN twin'._preorder_id_to_node = DOMAIN tree._preorder_id_to_node
        /\ DOMAIN twin'._postorder_id_node_mapping =
              DOMAIN tree._postorder_id_node_mapping
        /\ \A l \in DOMAIN tree._label_to_node :
              heap'[twin'._label_to_node[l]]._postorder_id =
                  heap[tree._label_to_node[l]]._postorder_id
        /\ tree' = tree
        /\ \A n \in 1..Len(heap) : heap'[n] = heap[n]

\* every node found through a table of the tree t is a node of t
LookupsInside(t) ==
    /\ \A id \in DOMAIN t._preorder_id_to_node :
          \E m \in OwnNodes(t) : get_by_preorder_id(t, id) = {<<m>>}
    /\ \A id \in DOMAIN t._postorder_id_node_mapping :
          \E m \in OwnNodes(t) : get_by_postorder_id(t, id) = {<<m>>}
    /\ \A l \in DOMAIN t._label_to_node :
          \E m \in OwnNodes(t) : get_by_label(t, l) = {<<m>>}

\* the two trees have no node in common, none of their nodes is deleted,
\* and their lookups stay inside them
Independent ==
    (tree.constructed /\ twin.constructed) =>
        /\ OwnNodes(tree) \cap OwnNodes(twin) = {}
        /\ LookupsInside(tree)
        /\ LookupsInside(twin)

\* this step changes a label or a branch length of a node of t
EditsNodeOf(t) ==
    /\ op'[1] \in {"set_label", "set_branch_length"}
    /\ op'[2] \in OwnNodes(t)

\* the tree object t, its nodes and so its lookup results are after the
\* step what they were before it, and no node of t is deleted
Untouched(t, t_after) ==
    /\ t_after = t
    /\ \A m \in OwnNodes(t) : heap'[m] = heap[m] /\ m \notin freed'
    /\ LookupsInside(t)

\* a step on one of the two trees leaves the other one untouched
OtherUntouched ==
    /\ (tree.constructed /\ twin.constructed
          /\ (op'[1] \in {"index", "destroy"} \/ EditsNodeOf(tree)))
       => Untouched(twin, twin')
    /\ (tree.constructed /\ twin.constructed
          /\ (op'[1] \in {"twin_index", "twin_destroy"} \/ EditsNodeOf(twin)))
       => Untouched(tree, tree')

\* C20: copy() of an indexed tree returns a tree with the same shape, child
\* order, labels, branch lengths, ids, depths, aggregates and node_count
\* and with no node in common with the tree copied; the lookups on either
\* tree return nodes of that tree; and a later change of a label or a
\* branch length, a re-index or the destruction of one of the two trees
\* leaves the other tree, its nodes, ids and lookup results unchanged.
C20_CopyIsIndependent ==
    /\ []Independent
    /\ [][CopyIsFaithful /\ OtherUntouched]_vars

\* the copy of a tree of three nodes had a label changed and was
\* re-indexed, and then the tree copied was destroyed
C20_Witness ==
    /\ op[1] = "destroy"
    /\ twin.constructed
    /\ get_node_count(twin) = 3
    /\ freed # {}
    /\ NewLabel \in DOMAIN twin._label_to_node
    /\ \E l \in DOMAIN twin._label_to_node : l # NewLabel /\ l # <<>>

\* ------------------------------------------------------------------------
\* C23
\* ------------------------------------------------------------------------

\* the nodes of the tree that carry the label L
Carriers(L) == {m \in TreeNodes : heap[m]._label = L}

\* the labels that several nodes of the tree carry
SharedLabels ==
    {heap[m]._label : m \in {n \in TreeNodes : Cardinality(SameLabel(n)) > 1}}

\* the position of node m in the traversal _index_labels makes
VisitOf(m) ==
    CHOOSE i \in 1..Len(visit_subtree(heap, tree._root)) :
        visit_subtree(heap, tree._root)[i] = m

\* C23: when several nodes of an indexed tree carry the label L, the empty
\* label included, get_by_label(L) returns the one of them that the
\* traversal of _index_labels visits last, and it is the one with the
\* greatest post-order id.
C23_LastWriterWins ==
    Indexed =>
        \A L \in SharedLabels :
            \E M \in Carriers(L) :
                /\ get_by_label(tree, L) = {<<M>>}
                /\ \A m \in Carriers(L) \ {M} :
                      /\ VisitOf(m) < VisitOf(M)
                      /\ heap[m]._postorder_id < heap[M]._postorder_id

\* an indexed tree in which three nodes have no label and the root has a
\* label
C23_Witness ==
    /\ Indexed
    /\ Cardinality(Carriers(<<>>)) = 3
    /\ heap[tree._root]._label # <<>>

\* ------------------------------------------------------------------------
\* C24
\* ------------------------------------------------------------------------

\* the node graph of the heap with no trace of any indexing: every node as
\* its constructor leaves it, with its label, branch length, children and
\* parent
Fresh(h) ==
    [i \in 1..Len(h) |->
        [phylo_node EXCEPT !._label = h[i]._label,
                           !._branch_length = h[i]._branch_length,
                           !._children = h[i]._children,
                           !._parent = h[i]._parent]]

\* this step is a call of index() that does not throw
IndexStep == tree.constructed /\ op'[1] = "index" /\ thrown' = "none"

\* C24: index() rebuilds everything from the node graph alone.  After a
\* call of index(), whatever the tree went through before (a first
\* indexing, set_root to another root), the tables, the count and the ids,
\* depths and aggregates of the nodes of the tree are those of a tree
\* freshly constructed from the same root over nodes never indexed, and
\* one more call of index() changes nothing.
C24_IndexRebuilds ==
    [][IndexStep =>
          LET fresh == tree_tree(Fresh(heap), tree._root)
          IN  /\ fresh.thrown = "none"
              /\ tree' = fresh.tree
              /\ \A m \in InSubtree(heap, tree._root) :
                    heap'[m] = fresh.heap[m]
              /\ index(State(tree', heap')) =
                    [tree |-> tree', heap |-> heap', thrown |-> "none"]]_vars

\* a tree was built on one root, given another root with fewer nodes below
\* it and a label the first structure does not have, and re-indexed
C24_Witness ==
    /\ Indexed
    /\ op[1] = "index"
    /\ \E m \in 1..Len(heap) :
          /\ m \notin TreeNodes
          /\ heap[m]._postorder_id > get_node_count(tree)
          /\ heap[m]._label \notin DOMAIN tree._label_to_node

\* ------------------------------------------------------------------------
\* C25
\* ------------------------------------------------------------------------

\* the nodes of the graph rooted at get_root(): none when it is null
CurrentGraph == InSubtree(heap, tree._root)

\* the nodes the lookups of the tree can return
Findable ==
    {tree._preorder_id_to_node[k] : k \in DOMAIN tree._preorder_id_to_node}
    \cup {tree._postorder_id_node_mapping[k] :
             k \in DOMAIN tree._postorder_id_node_mapping}
    \cup {tree._label_to_node[k] : k \in DOMAIN tree._label_to_node}

\* C25: after any sequence of construction, set_root and index, every node
\* a lookup of the tree finds is a node of the graph rooted at get_root(),
\* and get_node_count() is the number of nodes of that graph.
C25_TablesFollowRoot ==
    tree.constructed =>
        /\ Findable \subseteq CurrentGraph
        /\ get_node_count(tree) = Cardinality(CurrentGraph)

\* the part of C25 that the code keeps: the tables and the count follow
\* the root once index() has run on it
C25_TablesFollowRoot_Indexed ==
    Indexed =>
        /\ Findable = CurrentGraph
        /\ get_node_count(tree) = Cardinality(CurrentGraph)

\* ------------------------------------------------------------------------
\* C29
\* ------------------------------------------------------------------------

\* C29: after index() the subtree of every node N has contiguous ids: the
\* post-order ids of N and its descendants are exactly
\* post(N) - num_nodes(N) .. post(N), and their pre-order ids are exactly
\* pre(N) .. pre(N) + num_nodes(N).
C29_ContiguousIds ==
    Indexed =>
        \A N \in TreeNodes :
            /\ {heap[m]._postorder_id : m \in InSubtree(heap, N)} =
                  (heap[N]._postorder_id - heap[N]._num_nodes) ..
                      heap[N]._postorder_id
            /\ {heap[m]._preorder_id : m \in InSubtree(heap, N)} =
                  heap[N]._preorder_id ..
                      (heap[N]._preorder_id + heap[N]._num_nodes)

\* an indexed tree with a node that has a child, a sibling to its left and
\* so a range of ids that starts above 0 in both orders
C29_Witness ==
    /\ Indexed
    /\ \E N \in TreeNodes :
          /\ heap[N]._num_nodes > 0
          /\ heap[N]._postorder_id - heap[N]._num_nodes > 0
          /\ heap[N]._preorder_id > 1

\* ------------------------------------------------------------------------
\* C27
\* ------------------------------------------------------------------------

\* C27: whenever the parser handles ')' ',' or ';' outside a quoted
\* section, the pending-node stack is not empty, so that _finish_node and
\* _parse_node_text never call top() or pop() on an empty stack.
C27_StackNotEmpty ==
    [][ClosingStep => parser._node_stack # <<>>]_vars

\* the number of characters ch among the first n characters of s
CountOf(s, ch, n) == Cardinality({j \in 1..n : s[j] = ch})

\* the text s has no quote, its ')' and ',' are inside parentheses that
\* are open, and its ';' comes last, after something, with every
\* parenthesis closed
Balanced(s) ==
    \A i \in 1..Len(s) :
        /\ s[i] # "'"
        /\ s[i] \in {")", ","} =>
              CountOf(s, "(", i - 1) > CountOf(s, ")", i - 1)
        /\ s[i] = ";" =>
              /\ i = Len(s) /\ i > 1
              /\ CountOf(s, "(", i) = CountOf(s, ")", i)

\* C27 for the texts with balanced parentheses only: it fails as well, on
\* the ')' or ',' that follows a ',' with no text before it, as in "(,)"
C27_StackNotEmpty_Balanced ==
    [][(ClosingStep /\ Balanced(fed')) => parser._node_stack # <<>>]_vars

\* ------------------------------------------------------------------------
\* SpecNewick: parse_newick(newick_string) for an arbitrary text: one
\* parse() call on a fresh parser, then the tree built on get_root()
\* ------------------------------------------------------------------------

\* the text has not been given to the parser to its end yet
Parsing == op[1] = "none"

\* the next iteration of the loop of parser.parse(newick_string)
newick_parse ==
    /\ Parsing
    /\ fed = <<>> \/ inCall
    /\ Len(fed) < MaxLen
    /\ \E ch \in Alphabet : Iterate(ch)
    /\ UNCHANGED <<whole, phase, source, input,
                   treeVars, reader>>

\* return tree{parser.get_root()}, after a parse() call that returned and
\* in which nothing undefined happened: the text is over or the loop was
\* left at the ';'
newick_tree ==
    /\ Parsing
    /\ parser.status = "ok"
    /\ ~parser.ub
    /\ LET r == tree_tree(parser.nodes, get_root(parser))
       IN  /\ tree' = r.tree
           /\ heap' = r.heap
           /\ thrown' = r.thrown
    /\ op' = <<"parse_newick", NULL>>
    /\ inCall' = FALSE
    /\ UNCHANGED <<parser, c, fed, whole, phase, source, input, twinVars, reader>>

\* return tree{parser.get_root()} after top() or pop() were called on an
\* empty stack: the root may be any pointer and the nodes may be linked in
\* any way, so the constructor may crash, throw or return
newick_undefined ==
    /\ Parsing
    /\ parser.status = "ok"
    /\ parser.ub
    /\ thrown' \in {"crash", "invalid_argument", "none"}
    /\ op' = <<"undefined", NULL>>
    /\ inCall' = FALSE
    /\ UNCHANGED <<parser, c, fed, whole, phase, source, input,
                   heap, tree, twinVars, reader>>

\* the decimal digits as operator<< writes them
DigitChar(d) == <<"0", "1", "2", "3", "4", "5", "6", "7", "8", "9">>[d + 1]

RECURSIVE FormatLength(_)
\* out << std::setprecision(10) << branch_length for a whole number below
\* 10^10: its decimal digits, "0" for zero
FormatLength(n) ==
    IF n < 10 THEN <<DigitChar(n)>>
    ELSE FormatLength(n \div 10) \o <<DigitChar(n % 10)>>

RECURSIVE to_newick_node(_, _, _, _)
\* to_newick(out, node, jplace): the children in parentheses separated by
\* commas, the label as it is stored, ':' and the branch length, and the
\* post-order id in braces in the jplace form
to_newick_node(h, n, jplace, fuel) ==
    LET kids == h[n]._children
        RECURSIVE Children(_)
        Children(i) ==
            IF i > Len(kids) THEN <<>>
            ELSE (IF i > 1 THEN <<",">> ELSE <<>>)
                 \o to_newick_node(h, kids[i], jplace, fuel - 1)
                 \o Children(i + 1)
    IN  IF fuel = 0 THEN <<>>
        ELSE (IF kids # <<>> THEN <<"(">> \o Children(1) \o <<")">> ELSE <<>>)
             \o h[n]._label
             \o <<":">> \o FormatLength(h[n]._branch_length)
             \o (IF jplace
                 THEN <<"{">> \o FormatLength(h[n]._postorder_id) \o <<"}">>
                 ELSE <<>>)

\* to_newick(tree, jplace): the root's text and the closing ';'
to_newick(t, h, jplace) ==
    to_newick_node(h, t._root, jplace, Len(h) + 1) \o <<";">>

RECURSIVE parse(_, _, _)
\* newick_parser::parse(data) as a whole: the parsers the loop may end in,
\* from the parsers P at the character data[1]
parse(P, data, firstOfCall) ==
    IF data = <<>> THEN P
    ELSE parse(UNION {ParseStep(p, Head(data), firstOfCall) : p \in P},
               Tail(data), FALSE)

\* parse_newick(to_newick(tree)): the tree that parse_newick returned is
\* written in plain form and the text is parsed by a fresh parser; `input`
\* is the text, `whole` the second parser and `thrown` what the second
\* parse_newick call throws
newick_round_trip ==
    /\ op[1] = "parse_newick"
    /\ tree.constructed
    /\ LET text == to_newick(tree, heap, FALSE)
       IN  /\ input' = text
           /\ whole' \in parse({newick_parser}, text, TRUE)
    /\ thrown' \in
          IF whole'.status # "ok" THEN {"invalid_argument"}
          ELSE IF whole'.ub THEN {"crash", "invalid_argument", "none"}
          ELSE {tree_tree(whole'.nodes, get_root(whole')).thrown}
    /\ op' = <<"round_trip", NULL>>
    /\ UNCHANGED <<parser, inCall, c, fed, phase, source, heap, tree,
                   twinVars, reader>>

NextNewick ==
    newick_parse \/ newick_tree \/ newick_undefined \/ newick_round_trip

SpecNewick == InitParser /\ [][NextNewick]_vars

\* ------------------------------------------------------------------------
\* C26
\* ------------------------------------------------------------------------

\* parse_newick has built its tree, or failed to, on a text in which no
\* ';' ended the parsing
OverWithoutSemicolon ==
    op[1] = "parse_newick" /\ ~parser._end_of_file

\* C26: parse_newick on a text that never reaches a terminating ';', the
\* empty text included, fails with an error: an exception is thrown, no
\* tree is returned, and index() is not run on a null root.
C26_IncompleteInputFails ==
    OverWithoutSemicolon =>
        /\ ~tree.constructed
        /\ thrown \notin {"none", "crash"}

\* what the code does on such a text: get_root() is null and the
\* constructor of the tree runs index() on it
C26_IncompleteInputCrashes ==
    OverWithoutSemicolon =>
        /\ get_root(parser) = NULL
        /\ ~tree.constructed
        /\ thrown = "crash"

\* ------------------------------------------------------------------------
\* C28
\* ------------------------------------------------------------------------

\* this step handled the terminating ';' and _handle_semicolon returned,
\* with nothing undefined before or in it
SemicolonStep ==
    /\ ClosingStep
    /\ c' = ";"
    /\ parser'.status = "ok"
    /\ ~parser'.ub

\* the parent of the node get_root() returns
RootParent(p) == p.nodes[get_root(p)]._parent

\* the ';' leaves a root with a parent when two or more nodes are pending,
\* and a root without a parent when one node is pending
SemicolonSetsRoot ==
    SemicolonStep =>
        /\ Len(parser._node_stack) >= 2 => RootParent(parser') # NULL
        /\ Len(parser._node_stack) = 1 => RootParent(parser') = NULL

\* parse_newick on a text whose ';' left a root with a parent throws the
\* ownership-violation error and returns no tree; it returns a tree when
\* the root has no parent
TreeNeedsOrphanRoot ==
    (op[1] = "parse_newick" /\ parser._end_of_file) =>
        IF RootParent(parser) # NULL
        THEN thrown = "invalid_argument" /\ ~tree.constructed
        ELSE thrown = "none" /\ tree.constructed

\* C28: when the terminating ';' is processed while the pending-node stack
\* holds two or more nodes, the node get_root() returns has a parent, and
\* parse_newick on that text fails with the ownership-violation error and
\* returns no tree; when the stack holds one node, the root has no parent.
C28_UnclosedAtSemicolon ==
    /\ [][SemicolonSetsRoot]_vars
    /\ []TreeNeedsOrphanRoot

\* parse_newick threw the ownership-violation error on a text whose ';'
\* came with a '(' still open and a labelled node inside it
C28_Witness ==
    /\ op[1] = "parse_newick"
    /\ parser._end_of_file
    /\ thrown = "invalid_argument"
    /\ Len(parser._node_stack) >= 1
    /\ parser.nodes[get_root(parser)]._label # <<>>

\* ------------------------------------------------------------------------
\* C21
\* ------------------------------------------------------------------------

\* the tree returned by parse_newick was written and parsed again
RoundTripped == op[1] = "round_trip"

\* the second parse_newick call returned a tree
Reparsed == whole.status = "ok" /\ ~whole.ub /\ thrown = "none"

\* the tree as a value: labels, branch lengths and children in order
TreeShape == Shape(heap, tree._root, Len(heap) + 1)

\* the characters of the labels of the tree
LabelCharacters == UNION {Range(heap[n]._label) : n \in TreeNodes}

\* C21: for every tree obtained by parsing a Newick text, writing it in
\* plain form with to_newick and parsing the result again yields a tree
\* with the same shape, child order, labels and branch lengths
C21_RoundTrip ==
    RoundTripped => Reparsed /\ RootShape(whole) = TreeShape

\* what holds instead: the round trip gives the tree back when no label
\* contains a parenthesis, a comma or a semicolon, which to_newick writes
\* without quotes
C21_RoundTrip_PlainLabels ==
    RoundTripped /\ LabelCharacters \cap Structural = {}
        => Reparsed /\ RootShape(whole) = TreeShape

\* ------------------------------------------------------------------------
\* SpecVisit: a loop over the tree whose body runs visit_subtree on the
\* node it is given, as test_visit_tree does
\* ------------------------------------------------------------------------

\* an entry of the work-list of a traversal: a node and whether its
\* children were put on the list already
Frame(n, queued) == [node |-> n, queued |-> queued]

\* the children of n as new entries, the leftmost one on top
Frames(h, n) ==
    LET kids == h[n]._children
    IN  [i \in 1..Len(kids) |-> Frame(kids[Len(kids) + 1 - i], FALSE)]

RECURSIVE Settle(_, _)
\* the work-list brought to the next node to yield: as long as the children
\* of the top entry are not on the list, they are put on it
Settle(h, stack) ==
    IF stack = <<>> \/ stack[Len(stack)].queued THEN stack
    ELSE LET n == stack[Len(stack)].node
         IN  Settle(h, pop(stack) \o <<Frame(n, TRUE)>> \o Frames(h, n))

\* an iterator that works on the list of the traversal in progress
postorder_tree_iterator_shared(h, n) ==
    Settle(h, outer.stack \o <<Frame(n, FALSE)>>)

\* the post-order iterator made for the node n: a work-list of its own
postorder_tree_iterator(h, n) == Settle(h, <<Frame(n, FALSE)>>)

\* operator* of the iterator: the node on top of the work-list
dereference(stack) == stack[Len(stack)].node

\* operator++ of the iterator: the yielded node leaves the work-list
increment(h, stack) == Settle(h, pop(stack))

\* the iterator equals end(): nothing is left on the work-list
AtEnd(t) == t.stack = <<>>

\* the traversal was started
Started(t) == t.root # NULL

\* the heaps of the traversals: no labels, branch lengths 0
InitVisit ==
    /\ InitTree
    /\ \A i \in 1..Len(heap) :
          heap[i]._label = <<>> /\ heap[i]._branch_length = 0

\* for (auto& node : tree): tree.begin()
outer_begin ==
    /\ tree.constructed
    /\ ~Started(outer)
    /\ outer' = [stack |-> postorder_tree_iterator(heap, tree._root),
                 yielded |-> <<>>, root |-> tree._root]
    /\ op' = <<"begin", NULL>>
    /\ UNCHANGED <<heap, tree, thrown, twin, freed, edits, result, inner,
                   parserVars>>

\* the body of the loop: visit_subtree(&node) for the node of the outer
\* traversal, a new traversal while the outer one is in progress
inner_begin ==
    /\ Started(outer)
    /\ ~AtEnd(outer)
    /\ inner.root # dereference(outer.stack)
    /\ inner' = [stack |-> postorder_tree_iterator(heap,
                                                  dereference(outer.stack)),
                 yielded |-> <<>>, root |-> dereference(outer.stack)]
    /\ op' = <<"visit_subtree", dereference(outer.stack)>>
    /\ UNCHANGED <<heap, tree, thrown, twin, freed, edits, result, outer,
                   parserVars>>

\* one iteration of the loop over the inner traversal
inner_next ==
    /\ Started(inner)
    /\ ~AtEnd(inner)
    /\ inner' = [inner EXCEPT
                    !.yielded = Append(@, dereference(inner.stack)),
                    !.stack = increment(heap, @)]
    /\ UNCHANGED <<heap, tree, thrown, op, twin, freed, edits, result, outer,
                   parserVars>>

\* the body is over, the inner traversal having reached its end: the outer
\* loop goes to its next node
outer_next ==
    /\ Started(outer)
    /\ ~AtEnd(outer)
    /\ inner.root = dereference(outer.stack)
    /\ AtEnd(inner)
    /\ outer' = [outer EXCEPT
                    !.yielded = Append(@, dereference(outer.stack)),
                    !.stack = increment(heap, @)]
    /\ op' = <<"next", NULL>>
    /\ UNCHANGED <<heap, tree, thrown, twin, freed, edits, result, inner,
                   parserVars>>

NextVisit ==
    construct \/ outer_begin \/ inner_begin \/ inner_next \/ outer_next

SpecVisit == InitVisit /\ [][NextVisit]_vars

\* ------------------------------------------------------------------------
\* C22
\* ------------------------------------------------------------------------

\* s is the beginning of t
IsPrefix(s, t) == Len(s) <= Len(t) /\ s = SubSeq(t, 1, Len(s))

\* what the traversal t has yielded is the beginning of the post-order
\* sequence of the subtree it was started at, and all of it at the end
YieldsPostOrder(t) ==
    Started(t) =>
        /\ IsPrefix(t.yielded, PostOrder(heap, t.root))
        /\ ~AtEnd(t) =>
              /\ Len(t.yielded) < Len(PostOrder(heap, t.root))
              /\ dereference(t.stack) =
                     PostOrder(heap, t.root)[Len(t.yielded) + 1]
        /\ AtEnd(t) => t.yielded = PostOrder(heap, t.root)

\* C22: when an inner traversal is started at each node an outer traversal
\* of the tree yields and is run to its end, the outer traversal yields
\* the post-order sequence of the tree, each node once, and every inner
\* traversal yields its own subtree
C22_NestedTraversals ==
    /\ YieldsPostOrder(outer)
    /\ YieldsPostOrder(inner)
    /\ Started(outer) => outer.root = tree._root
    /\ Started(outer) /\ AtEnd(outer) =>
          /\ Range(outer.yielded) = TreeNodes
          /\ Len(outer.yielded) = Cardinality(TreeNodes)
    /\ Started(inner) /\ AtEnd(inner) =>
          /\ Range(inner.yielded) = InSubtree(heap, inner.root)
          /\ Len(inner.yielded) = Cardinality(InSubtree(heap, inner.root))

\* both loops are over for a tree of four nodes on three levels: the last
\* inner traversal, started at the root, yielded the whole tree as well
C22_Witness ==
    /\ Started(outer)
    /\ AtEnd(outer)
    /\ Len(outer.yielded) = 4
    /\ inner.root = tree._root
    /\ inner.yielded = outer.yielded
    /\ \E n \in TreeNodes :
          heap[n]._parent # NULL /\ heap[heap[n]._parent]._parent # NULL

\* ------------------------------------------------------------------------
\* buffered_reader
\* ------------------------------------------------------------------------

\* the size of _buffer; a chunk has at most buffer_size - 1 bytes
buffer_size == 3

\* the longest file
MaxFile == 5

\* the bytes of a file: the characters of the parser but the quote and the
\* comma, and '\0'
FileAlphabet == (Alphabet \ {"'", ","}) \cup {NUL}

\* the contents of the files
Files == UNION {[1..n -> FileAlphabet] : n \in 0..MaxFile}

Min(a, b) == IF a < b THEN a ELSE b

\* buffered_reader::_get_file_legth: tellg() at the end of the stream, -1
\* when the stream has failed
_get_file_legth(r) == IF r.good THEN Len(r.file) ELSE -1

\* buffered_reader::_start_reading
_start_reading(r) ==
    [r EXCEPT !._file_length = _get_file_legth(r), !._started = TRUE]

\* buffered_reader::buffered_reader(file_name) for a file of the content
\* file, or for a file that cannot be read; _buffer is not written yet
buffered_reader(file, good) ==
    _start_reading([file |-> file, good |-> good, _started |-> FALSE,
                    _file_length |-> 0, _read |-> 0, _buffer |-> <<>>])

\* buffered_reader::empty
empty(r) == IF r._file_length = 0 THEN TRUE ELSE r._read = r._file_length

\* buffered_reader::good
good(r) == r.good

\* buffered_reader::_read_next_chunk: the next bytes of the file and the
\* terminating '\0' in _buffer
_read_next_chunk(r) ==
    IF r._read < r._file_length
    THEN LET size_to_read == Min(r._file_length - r._read, buffer_size - 1)
         IN  [r EXCEPT
                 !._buffer = SubSeq(r.file, r._read + 1,
                                    r._read + size_to_read) \o <<NUL>>,
                 !._read = @ + size_to_read]
    ELSE [r EXCEPT !._buffer = <<NUL>>]

RECURSIVE string_view(_)
\* std::string_view(const char*): the bytes before the first '\0'
string_view(buffer) ==
    IF buffer = <<>> \/ Head(buffer) = NUL THEN <<>>
    ELSE <<Head(buffer)>> \o string_view(Tail(buffer))

\* buffered_reader::read_next_chunk: the reader after the call and the
\* chunk returned
read_next_chunk(r) ==
    LET r1 == IF ~r._started THEN _start_reading(r) ELSE _read_next_chunk(r)
    IN  [reader |-> r1, chunk |-> string_view(r1._buffer)]

\* ------------------------------------------------------------------------
\* SpecLoad: load_newick(file_name) for an arbitrary file; `input` is the
\* last chunk, `fed` the chunks given to the parser so far and `whole` the
\* parser of parse_newick on the content of the file
\* ------------------------------------------------------------------------

InitLoad ==
    /\ InitNoTree
    /\ parser = newick_parser
    /\ inCall = FALSE
    /\ c = "none"
    /\ fed = <<>>
    /\ whole = newick_parser
    /\ phase = "none"
    /\ source = <<>>
    /\ input = <<>>
    /\ reader \in {buffered_reader(file, TRUE) : file \in Files}
                      \cup {buffered_reader(<<>>, FALSE)}

\* parse_newick on the content of the file: the parser after its parse()
\* call
parse_newick(file) == parse({newick_parser}, file, TRUE)

\* one iteration of the loop of load_newick: read_next_chunk() and
\* parser.parse(chunk)
load_chunk ==
    /\ Parsing
    /\ good(reader)
    /\ ~empty(reader)
    /\ parser.status = "ok"
    /\ LET next == read_next_chunk(reader)
       IN  /\ reader' = next.reader
           /\ input' = next.chunk
           /\ fed' = fed \o next.chunk
           /\ parser' \in parse({parser}, next.chunk, TRUE)
    /\ UNCHANGED <<inCall, c, whole, phase, source, treeVars>>

\* the reader is not good: std::runtime_error
load_cannot_open ==
    /\ Parsing
    /\ ~good(reader)
    /\ thrown' = "runtime_error"
    /\ op' = <<"load_newick", NULL>>
    /\ UNCHANGED <<parserVars, heap, tree, twinVars>>

\* an exception or a crash in parse() ends load_newick
load_throw ==
    /\ Parsing
    /\ good(reader)
    /\ parser.status # "ok"
    /\ thrown' = IF parser.status = "error" THEN "invalid_argument"
                 ELSE "crash"
    /\ whole' \in parse_newick(reader.file)
    /\ op' = <<"load_newick", NULL>>
    /\ UNCHANGED <<parser, inCall, c, fed, phase, source, input, reader,
                   heap, tree, twinVars>>

\* the reader is empty: tree{parser.get_root()}
load_tree ==
    /\ Parsing
    /\ good(reader)
    /\ empty(reader)
    /\ parser.status = "ok"
    /\ ~parser.ub
    /\ LET r == tree_tree(parser.nodes, get_root(parser))
       IN  /\ tree' = r.tree
           /\ heap' = r.heap
           /\ thrown' = r.thrown
    /\ whole' \in parse_newick(reader.file)
    /\ op' = <<"load_newick", NULL>>
    /\ UNCHANGED <<parser, inCall, c, fed, phase, source, input, reader,
                   twinVars>>

\* the reader is empty and top() or pop() were called on an empty stack:
\* the constructor of the tree may crash, throw or return
load_undefined ==
    /\ Parsing
    /\ good(reader)
    /\ empty(reader)
    /\ parser.status = "ok"
    /\ parser.ub
    /\ thrown' \in {"crash", "invalid_argument", "none"}
    /\ whole' \in parse_newick(reader.file)
    /\ op' = <<"load_newick", NULL>>
    /\ UNCHANGED <<parser, inCall, c, fed, phase, source, input, reader,
                   heap, tree, twinVars>>

NextLoad ==
    load_chunk \/ load_cannot_open \/ load_throw \/ load_tree
        \/ load_undefined

SpecLoad == InitLoad /\ [][NextLoad]_vars

\* ------------------------------------------------------------------------
\* C30
\* ------------------------------------------------------------------------

\* load_newick has returned or thrown for a file that could be read
Loaded == op[1] = "load_newick" /\ good(reader)

\* what a caller gets from the parser p after parse(): the exception, the
\* crash or the tree
Outcome(p) ==
    IF p.status = "error" THEN <<"invalid_argument">>
    ELSE IF p.status = "crashed" THEN <<"crash">>
    ELSE LET r == tree_tree(p.nodes, get_root(p))
         IN  IF r.thrown # "none" THEN <<r.thrown>>
             ELSE <<"tree", RootShape(p)>>

\* nothing undefined happened in load_newick or in parse_newick
Defined == ~parser.ub /\ ~whole.ub

\* C30: for every file content s the chunks have at most buffer_size - 1
\* bytes, every byte of s is handed to the parser once and in order, and
\* load_newick returns the same tree or fails the same way as
\* parse_newick(s)
C30_LoadIsParse ==
    /\ Len(input) <= buffer_size - 1
    /\ Loaded /\ parser.status = "ok" => fed = reader.file
    /\ Loaded /\ Defined => Outcome(parser) = Outcome(whole)

\* what holds of the chunks: for a file without the byte '\0' the chunks
\* are the next bytes of the file, at most buffer_size - 1 of them and all
\* but the last one exactly as many, and every byte was handed over when
\* the loop ends
C30_ChunksInOrder ==
    NUL \notin Range(reader.file) =>
        /\ Len(input) <= buffer_size - 1
        /\ fed = SubSeq(reader.file, 1, reader._read)
        /\ ~empty(reader) => Len(fed) % (buffer_size - 1) = 0
        /\ Loaded /\ parser.status = "ok" => fed = reader.file

\* what holds of the result: load_newick and parse_newick agree on a file
\* of one chunk without the byte '\0'
C30_LoadIsParse_OneChunk ==
    /\ Loaded
    /\ Defined
    /\ NUL \notin Range(reader.file)
    /\ Len(reader.file) <= buffer_size - 1
    => Outcome(parser) = Outcome(whole)

\* the loop ends: every iteration reads at least one byte and never more
\* than the file has
C30_LoopAdvances ==
    [][reader' # reader =>
          /\ reader'._read > reader._read
          /\ reader'._read <= reader._file_length]_vars
====
